---- MODULE Spec2Model ----
(***************************************************************************)
(* Career and corpus simulation engine of the NPS-vs-UPS pension           *)
(* calculator: pay_commissions.py, rates.py, invest_options.py and         *)
(* contribution.py as state machines and operators.                        *)
(*                                                                         *)
(* Encodings.                                                              *)
(*  - Money is an integer number of rupees (pay tables) or of paise        *)
(*    (salaries, contributions, corpus: Python rounds them to 2 decimals). *)
(*  - A half-year key such as 2024.5 is the integer 2*2024 + 1; a service  *)
(*    duration is a number of half-years.                                  *)
(*  - A fitment factor is given in hundredths (2.0 is 200).                *)
(*  - A pay table (pandas DataFrame) is a sequence of columns              *)
(*    [name, cells]; a blank cell (NaN / pd.NA) is Blank.                  *)
(*  - An exception is a result record with ok = FALSE, or pc = "error".    *)
(***************************************************************************)
EXTENDS Integers, Sequences, FiniteSets, TLC

VARIABLES
    \* ---- the call under way, its arguments, whether a single-step call has
    \* been made, its result (a pay result, an allocation, a mapping, a number)
    op, arg, called, res, resTable,
    \* ---- data folder (file name -> table) and names present in the working directory
    files, cwdFiles,
    \* ---- position of a looping function: "idle", "loop", "done", "error"
    pc,
    \* ---- locals of career_progression
    current_pay_matrix, present_pay_matrix_csv, present_pay_comm_no,
    pay_level, year_row_in_current_pay_level, basic_pay,
    promotion_yr_array_index, pay_commission_index,
    current_service_duration, progression,
    \* ---- locals of get_corpus_growth
    month_index, current_corpus, current_year, yearly_corpus_growth,
    \* ---- a second career_progression run waiting for the processor: its
    \* position, arguments and locals (NoRun when there is none)
    suspended

pureVars == <<op, arg, called, res, resTable>>
fsVars == <<files, cwdFiles>>
careerVars ==
    <<current_pay_matrix, present_pay_matrix_csv, present_pay_comm_no,
      pay_level, year_row_in_current_pay_level, basic_pay,
      promotion_yr_array_index, pay_commission_index,
      current_service_duration, progression>>
corpusVars == <<month_index, current_corpus, current_year, yearly_corpus_growth>>
loopVars == <<pc, careerVars, corpusVars, suspended>>

(***************************************************************************)
(* Arithmetic                                                              *)
(***************************************************************************)

\* Python 3 round(n/d) for n >= 0, d > 0: to the nearest integer, ties to even
RoundHalfEven(n, d) ==
    LET q == n \div d
        r == n % d
    IN  IF 2 * r < d THEN q
        ELSE IF 2 * r > d THEN q + 1
        ELSE IF q % 2 = 0 THEN q ELSE q + 1

Min(a, b) == IF a <= b THEN a ELSE b

(***************************************************************************)
(* Pay tables                                                              *)
(***************************************************************************)

\* np.nan / pd.NA: a cell beyond a level's last step
Blank == -1

\* 7th_CPC.csv cut to five rows: every column header is a level (the first
\* one included), higher levels have fewer steps, every amount is a
\* multiple of 100
PayMatrix7 ==
    << [name |-> "9",   cells |-> <<5000, 5200, 5400, 5600, 5800>>],
       [name |-> "10",  cells |-> <<5600, 5800, 6000, 6200, 6400>>],
       [name |-> "11",  cells |-> <<6700, 6900, 7100, 7300, 7500>>],
       [name |-> "12",  cells |-> <<7800, 8000, 8200, 8400, Blank>>],
       [name |-> "13",  cells |-> <<12300, 12700, 13100, Blank, Blank>>],
       [name |-> "13A", cells |-> <<13100, 13500, 13900, Blank, Blank>>],
       [name |-> "14",  cells |-> <<14400, 14800, Blank, Blank, Blank>>],
       [name |-> "15",  cells |-> <<18200, 18700, Blank, Blank, Blank>>],
       [name |-> "16",  cells |-> <<20500, 21100, Blank, Blank, Blank>>],
       [name |-> "17",  cells |-> <<22500, Blank, Blank, Blank, Blank>>] >>

\* a table in which a level's ceiling is above the whole next level, and a
\* level after 12 that has only two steps
PayMatrixSteep ==
    << [name |-> "10",  cells |-> <<5600, 5800, 6000, 6200, 9000>>],
       [name |-> "11",  cells |-> <<6700, 6900, 7100, 7300, 7500>>],
       [name |-> "12",  cells |-> <<7800, 8000, 8200, 9800, Blank>>],
       [name |-> "13",  cells |-> <<9400, 9700, Blank, Blank, Blank>>],
       [name |-> "13A", cells |-> <<9900, Blank, Blank, Blank, Blank>>],
       [name |-> "14",  cells |-> <<10400, 10800, 11200, 11600, 12000>>] >>

\* a table whose first column is a row counter, not a level
PayMatrixYearCol ==
    << [name |-> "Year", cells |-> <<1, 2, 3, 4>>],
       [name |-> "10",   cells |-> <<5600, 5800, 6000, 6200>>],
       [name |-> "11",   cells |-> <<6700, 6900, 7100, Blank>>],
       [name |-> "12",   cells |-> <<7800, 7800, Blank, Blank>>] >>

\* a table with amounts that are not multiples of 100
PayMatrixOdd ==
    << [name |-> "1", cells |-> <<1850, 1925, 2050>>],
       [name |-> "2", cells |-> <<1990, 2050, Blank>>],
       [name |-> "3", cells |-> <<2170, 2170, Blank>>] >>

\* len(pay_matrix_df)
NRows(df) == Len(df[1].cells)

\* list(pay_matrix_df.columns)
Levels(df) == [i \in 1..Len(df) |-> df[i].name]

HasLevel(df, level) == \E i \in 1..Len(df) : df[i].name = level

\* levels.index(level) + 1
LevelIndex(df, level) ==
    CHOOSE i \in 1..Len(df) :
        /\ df[i].name = level
        /\ \A j \in 1..(i - 1) : df[j].name # level

\* pay_matrix_df[level]
Column(df, level) == df[LevelIndex(df, level)].cells

\* pay_matrix_df[level].last_valid_index() + 1
MaxSteps(col) ==
    CHOOSE i \in 1..Len(col) :
        /\ col[i] # Blank
        /\ \A j \in (i + 1)..Len(col) : col[j] = Blank

\* pay_matrix_df[level].dropna().max()
ColumnMax(col) ==
    CHOOSE m \in {col[i] : i \in 1..Len(col)} :
        \A i \in 1..Len(col) : col[i] <= m

\* the result of a raised exception
PayError == [ok |-> FALSE, level |-> "", year |-> 0, pay |-> 0]

PayResult(level, year, pay) ==
    [ok |-> TRUE, level |-> level, year |-> year, pay |-> pay]

\* int(x) of a cell: ValueError / TypeError on a blank
IntCell(level, year, cell) ==
    IF cell = Blank THEN PayError ELSE PayResult(level, year, cell)

get_basic_pay(level, year, df) ==
    IF ~HasLevel(df, level) THEN PayError
    ELSE IF ~(1 <= year /\ year <= NRows(df)) THEN PayError
    ELSE LET col == Column(df, level)
             max_steps == MaxSteps(col)
         IN  IF year >= max_steps
             THEN PayResult(level, year, col[max_steps])
             ELSE PayResult(level, year, col[year])

\* the sort key of a level, in tenths: float(level.replace('A', '.5'));
\* a header that is not a number has none (float raises ValueError)
LevelNumber(level) ==
    CASE level = "1" -> 10 [] level = "2" -> 20 [] level = "3" -> 30
      [] level = "9" -> 90 [] level = "10" -> 100 [] level = "11" -> 110
      [] level = "12" -> 120 [] level = "13" -> 130 [] level = "13A" -> 135
      [] level = "14" -> 140 [] level = "15" -> 150 [] level = "16" -> 160
      [] level = "17" -> 170 [] OTHER -> Blank

\* found_matches: the cells equal to the amount (a blank cell equals nothing)
FoundMatches(amount, df) ==
    {m \in (1..Len(df)) \X (1..NRows(df)) :
        df[m[1]].cells[m[2]] # Blank /\ df[m[1]].cells[m[2]] = amount}

\* variant: within a level the highest step sorts first
SortsBeforeLatestStep(df, a, b) ==
    \/ LevelNumber(df[a[1]].name) > LevelNumber(df[b[1]].name)
    \/ LevelNumber(df[a[1]].name) = LevelNumber(df[b[1]].name) /\ a[2] >= b[2]

\* the order of found_matches.sort(key=(level number, -year), reverse=True)
SortsBefore(df, a, b) ==
    \/ LevelNumber(df[a[1]].name) > LevelNumber(df[b[1]].name)
    \/ LevelNumber(df[a[1]].name) = LevelNumber(df[b[1]].name) /\ a[2] <= b[2]

\* variant: an amount that is not found raises
NotFoundRaises == PayError

\* return (0, 0): no level, no year
NotFound == [ok |-> TRUE, level |-> "0", year |-> 0, pay |-> 0]

\* get_level_year_from_basic_pay: (level, year) of the best match; the pay
\* field of the result is not used
get_level_year_from_basic_pay(amount, df) ==
    LET found_matches == FoundMatches(amount, df)
    IN  IF found_matches = {} THEN NotFound
        ELSE IF \E m \in found_matches : LevelNumber(df[m[1]].name) = Blank
        THEN PayError
        ELSE LET best_match ==
                    CHOOSE a \in found_matches :
                        \A b \in found_matches : SortsBefore(df, a, b)
             IN  [ok |-> TRUE, level |-> df[best_match[1]].name,
                  year |-> best_match[2], pay |-> 0]

\* variant: at the ceiling of the level the step is held
annual_incrementStepHeld(current_level, year, df) ==
    IF ~HasLevel(df, current_level) THEN PayError
    ELSE LET col == Column(df, current_level)
             max_steps == MaxSteps(col)
         IN  IF year >= max_steps
             THEN PayResult(current_level, year, col[max_steps])
             ELSE PayResult(current_level, year + 1, col[year + 1])

\* annual_increment: one step further in the same level; at or beyond the
\* last step the year still grows and the pay stays at the maximum
annual_increment(current_level, year, df) ==
    IF ~HasLevel(df, current_level) THEN PayError
    ELSE LET col == Column(df, current_level)
             max_steps == MaxSteps(col)
         IN  IF year >= max_steps
             THEN PayResult(current_level, year + 1, col[max_steps])
             ELSE PayResult(current_level, year + 1, col[year + 1])

\* IAS special rule: levels 13A and 16 are skipped
levels_to_skip == {"13A", "16"}

\* IAS special rule: two steps further for promotions out of these levels
IasExtraStepLevels == {"10", "11", "12"}

\* pay_matrix_df[current_level].iloc[year], the source level's ceiling when blank
SteppedPay(current_level, year, df) ==
    LET col == Column(df, current_level)
    IN  IF col[year + 1] = Blank THEN ColumnMax(col) ELSE col[year + 1]

\* variant: an IAS promotion goes to the very next level of the list
NextLevelIndexNoSkip(current_level, df, is_ias) ==
    Min(LevelIndex(df, current_level) + 1, Len(df))

\* position (1-based) of the level a promotion out of current_level goes to
NextLevelIndex(current_level, df, is_ias) ==
    LET curr == LevelIndex(df, current_level)
        nxt == IF curr + 1 <= Len(df)
               THEN IF is_ias /\ df[curr + 1].name \in levels_to_skip
                    THEN curr + 2
                    ELSE curr + 1
               ELSE curr + 1
    IN  IF nxt > Len(df) THEN Len(df) ELSE nxt

\* variant: the search accepts the first populated cell of the target level
MatchIndexFirstCell(col, stepped_pay) == 1

\* the first index (1-based) whose cell is >= stepped_pay, 0 when there is none
\* (a blank cell is NaN and never compares >=)
MatchIndex(col, stepped_pay) ==
    IF \E i \in 1..Len(col) : col[i] # Blank /\ col[i] >= stepped_pay
    THEN CHOOSE i \in 1..Len(col) :
            /\ col[i] # Blank /\ col[i] >= stepped_pay
            /\ \A j \in 1..(i - 1) : ~(col[j] # Blank /\ col[j] >= stepped_pay)
    ELSE 0

promote_employee(current_level, year, df, is_ias) ==
    IF ~HasLevel(df, current_level) THEN PayError
    ELSE IF ~(1 <= year /\ year < NRows(df)) THEN PayError
    ELSE LET stepped_pay == SteppedPay(current_level, year, df)
             next_level_index == NextLevelIndex(current_level, df, is_ias)
             next_level == df[next_level_index].name
             next_column == df[next_level_index].cells
             found == MatchIndex(next_column, stepped_pay)
             extra == is_ias /\ current_level \in IasExtraStepLevels
         IN  IF extra /\ found = 0 THEN PayError    \* None + 2
             ELSE IF found = 0
             THEN IntCell(next_level, Len(next_column), next_column[Len(next_column)])
             ELSE LET match_index ==
                          IF extra THEN Min(found + 2, Len(next_column)) ELSE found
                  IN  IntCell(next_level, match_index, next_column[match_index])

(***************************************************************************)
(* Pay commissions: the derived table and its file                         *)
(***************************************************************************)

\* variant: rounds to the nearest 1000 instead of the nearest 100
DeriveCellRound1000(x, ff) ==
    IF x = Blank THEN Blank ELSE RoundHalfEven(x * ff, 100000) * 1000

\* int(round(x * fitment_factor / 100.0) * 100), blank stays blank
DeriveCell(x, ff) ==
    IF x = Blank THEN Blank ELSE RoundHalfEven(x * ff, 10000) * 100

\* new_df: every column but the first (value_columns = new_df.columns[1:])
DeriveTable(df, ff) ==
    [i \in 1..Len(df) |->
        IF i = 1 THEN df[i]
        ELSE [name |-> df[i].name,
              cells |-> [k \in 1..Len(df[i].cells) |-> DeriveCell(df[i].cells[k], ff)]]]

\* fitment factors in hundredths: 1.0, 1.71, 2 and 2.5
FitmentFactors == {100, 171, 200, 250}

\* number of commissions a run may list
MaxCommissions == 2

\* '7th_CPC.csv'
PAY_MATRIX_7CPC_CSV == [cpc |-> 7, ff |-> 0]

\* f"{n}th_CPC_fitment_factor_{fit_factor}.csv"
CpcFileName(n, ff) == [cpc |-> n, ff |-> ff]

\* extract_cpc_no_from_filename
extract_cpc_no_from_filename(filename) == filename.cpc

FileNames ==
    {PAY_MATRIX_7CPC_CSV} \cup
    {CpcFileName(n, f) : n \in 8..(7 + MaxCommissions + 1), f \in FitmentFactors}

\* a file that does not exist
NoFile == <<>>

\* generate_next_pay_commission: the table it returns (NoFile when the source
\* file cannot be read) ...
GeneratedTable(ff, source, fs) ==
    IF fs[source] = NoFile THEN NoFile ELSE DeriveTable(fs[source], ff)

\* ... and the data folder after it wrote the table
GeneratedFiles(ff, source, fs) ==
    IF fs[source] = NoFile THEN fs
    ELSE [fs EXCEPT ![CpcFileName(extract_cpc_no_from_filename(source) + 1, ff)] =
                        DeriveTable(fs[source], ff)]

(***************************************************************************)
(* Locals of the looping functions while no such function runs             *)
(***************************************************************************)

CareerIdle ==
    /\ current_pay_matrix = NoFile
    /\ present_pay_matrix_csv = PAY_MATRIX_7CPC_CSV
    /\ present_pay_comm_no = 0
    /\ pay_level = ""
    /\ year_row_in_current_pay_level = 0
    /\ basic_pay = 0
    /\ promotion_yr_array_index = 0
    /\ pay_commission_index = 0
    /\ current_service_duration = 0
    /\ progression = <<>>

\* no second run
NoRun == <<>>

CorpusIdle ==
    /\ month_index = 0
    /\ current_corpus = 0
    /\ current_year = 0
    /\ yearly_corpus_growth = <<>>

(***************************************************************************)
(* Specification of the pay-table functions: one call per behaviour        *)
(***************************************************************************)

PayTables == {PayMatrix7, PayMatrixSteep, PayMatrixYearCol, PayMatrixOdd}

\* steps tried beyond the number of rows of the table
StepsBeyond == 2

NoPay == [ok |-> FALSE, level |-> "none", year |-> 0, pay |-> 0]

\* the amounts looked up: every cell of every table, and amounts of no table
Amounts ==
    UNION {{t[i].cells[k] : i \in 1..Len(t), k \in 1..NRows(t)} : t \in PayTables}
        \cup {0, 5650}

PayArgs ==
    UNION {[df : {t}, level : {t[i].name : i \in 1..Len(t)} \cup {"99"},
            year : 0..(NRows(t) + StepsBeyond), is_ias : BOOLEAN,
            ff : FitmentFactors, basic_pay : Amounts] : t \in PayTables}

PayOps == {"get_basic_pay", "annual_increment", "promote_employee",
           "generate_next_pay_commission", "get_level_year_from_basic_pay"}

FreshFiles(df) == [n \in FileNames |-> IF n = PAY_MATRIX_7CPC_CSV THEN df ELSE NoFile]

InitPay ==
    /\ op \in PayOps
    /\ arg \in PayArgs
    /\ (op \in {"get_basic_pay", "generate_next_pay_commission"}) => ~arg.is_ias
    /\ (op # "generate_next_pay_commission") => arg.ff = 100
    /\ (op = "generate_next_pay_commission") => (arg.year = 1 /\ arg.level = "99")
    /\ (op = "annual_increment") => (~arg.is_ias /\ arg.year >= 1)
    /\ (op = "get_level_year_from_basic_pay") =>
            (arg.year = 1 /\ arg.level = "99" /\ ~arg.is_ias)
    /\ (op # "get_level_year_from_basic_pay") => arg.basic_pay = 0
    /\ called = FALSE
    /\ res = NoPay
    /\ resTable = NoFile
    /\ files = FreshFiles(arg.df)
    /\ cwdFiles = {}
    /\ pc = "idle" /\ CareerIdle /\ CorpusIdle /\ suspended = NoRun

CallGetBasicPay ==
    /\ op = "get_basic_pay" /\ ~called
    /\ called' = TRUE
    /\ res' = get_basic_pay(arg.level, arg.year, arg.df)
    /\ UNCHANGED <<op, arg, resTable, files, cwdFiles, loopVars>>

CallAnnualIncrement ==
    /\ op = "annual_increment" /\ ~called
    /\ called' = TRUE
    /\ res' = annual_increment(arg.level, arg.year, arg.df)
    /\ UNCHANGED <<op, arg, resTable, files, cwdFiles, loopVars>>

CallPromote ==
    /\ op = "promote_employee" /\ ~called
    /\ called' = TRUE
    /\ res' = promote_employee(arg.level, arg.year, arg.df, arg.is_ias)
    /\ UNCHANGED <<op, arg, resTable, files, cwdFiles, loopVars>>

CallGenerate ==
    /\ op = "generate_next_pay_commission" /\ ~called
    /\ called' = TRUE
    /\ resTable' = GeneratedTable(arg.ff, PAY_MATRIX_7CPC_CSV, files)
    /\ files' = GeneratedFiles(arg.ff, PAY_MATRIX_7CPC_CSV, files)
    /\ UNCHANGED <<op, arg, res, cwdFiles, loopVars>>

CallGetLevelYear ==
    /\ op = "get_level_year_from_basic_pay" /\ ~called
    /\ called' = TRUE
    /\ res' = get_level_year_from_basic_pay(arg.basic_pay, arg.df)
    /\ UNCHANGED <<op, arg, resTable, files, cwdFiles, loopVars>>

NextPay ==
    \/ CallGetBasicPay \/ CallAnnualIncrement \/ CallPromote \/ CallGenerate
    \/ CallGetLevelYear

vars == <<pureVars, fsVars, loopVars>>

SpecPay == InitPay /\ [][NextPay]_vars

(***************************************************************************)
(* Properties of the pay-table functions (checked under SpecPay)           *)
(***************************************************************************)

\* within every column, pay does not decrease with the step
NonDecreasing(df) ==
    \A i \in 1..Len(df) : \A k \in 1..(Len(df[i].cells) - 1) :
        df[i].cells[k + 1] # Blank => df[i].cells[k] <= df[i].cells[k + 1]

\* the pay one step further in the level, the level's ceiling at or beyond it
OneStepFurther(level, year, df) ==
    LET col == Column(df, level)
    IN  col[Min(year + 1, MaxSteps(col))]

PromotionDone == op = "promote_employee" /\ called /\ res.ok

\* C2 as stated: every promotion that promote_employee performs, on a table
\* whose levels are non-decreasing in step, ends at a basic pay that is at
\* least the stepped pay
C2_PromotionAtLeastSteppedPay ==
    (PromotionDone /\ NonDecreasing(arg.df)) =>
        res.pay >= OneStepFurther(arg.level, arg.year, arg.df)

\* some populated step of the level the promotion landed in pays at least the
\* stepped pay
TargetCanMatch ==
    \E k \in 1..NRows(arg.df) :
        Column(arg.df, res.level)[k] >= OneStepFurther(arg.level, arg.year, arg.df)

\* C2 amended: every promotion performed into a level that has a step paying
\* at least the stepped pay ends at a basic pay that is at least the stepped
\* pay
C2_PromotionAtLeastSteppedPayWhenMatch ==
    (PromotionDone /\ NonDecreasing(arg.df) /\ TargetCanMatch) =>
        res.pay >= OneStepFurther(arg.level, arg.year, arg.df)

\* an IAS promotion out of level 11 two steps past the first qualifying step
C2_Witness ==
    /\ PromotionDone /\ TargetCanMatch
    /\ arg.df = PayMatrix7 /\ arg.level = "11" /\ arg.is_ias
    /\ res.level = "12" /\ res.year = 3
    /\ res.pay > OneStepFurther(arg.level, arg.year, arg.df)

\* C7: for every level of the table and every step s >= 1, get_basic_pay
\* returns a pay, not above the pay of step s + 1, and the level's ceiling
\* pay for every step beyond the last populated one
C7_BasicPayMonotoneAndClamped ==
    (op = "get_basic_pay" /\ called /\ HasLevel(arg.df, arg.level) /\ arg.year >= 1) =>
        LET col == Column(arg.df, arg.level)
            next == get_basic_pay(arg.level, arg.year + 1, arg.df)
        IN  /\ res.ok
            /\ next.ok
            /\ res.pay <= next.pay
            /\ arg.year > MaxSteps(col) => res.pay = col[MaxSteps(col)]

GenerateDone == op = "generate_next_pay_commission" /\ called /\ resTable # NoFile

\* a column whose header is a level identifier
IsLevelColumn(c) == c.name # "Year"

\* r is x times the factor ff (hundredths) rounded to the nearest 100
IsNearest100(r, x, ff) ==
    /\ r % 100 = 0
    /\ 100 * r - x * ff <= 5000
    /\ x * ff - 100 * r <= 5000

\* C8: in the table generate_next_pay_commission returns, every populated
\* cell of every level column is the source cell times the factor rounded to
\* the nearest 100, and every blank cell stays blank
C8_DerivedTableScalesEveryLevel ==
    GenerateDone =>
        /\ Len(resTable) = Len(arg.df)
        /\ \A i \in 1..Len(arg.df) :
            IsLevelColumn(arg.df[i]) =>
                /\ resTable[i].name = arg.df[i].name
                /\ Len(resTable[i].cells) = Len(arg.df[i].cells)
                /\ \A k \in 1..Len(arg.df[i].cells) :
                    IF arg.df[i].cells[k] = Blank
                    THEN resTable[i].cells[k] = Blank
                    ELSE /\ resTable[i].cells[k] # Blank
                         /\ IsNearest100(resTable[i].cells[k], arg.df[i].cells[k], arg.ff)

AllMultiplesOf100(df) ==
    \A i \in 1..Len(df) : \A k \in 1..Len(df[i].cells) :
        (IsLevelColumn(df[i]) /\ df[i].cells[k] # Blank) => df[i].cells[k] % 100 = 0

\* C9: with fitment factor 1.0 and a source table whose populated cells are
\* all multiples of 100, the derived table equals the source cell for cell
C9_FitmentOneReproducesSource ==
    (GenerateDone /\ arg.ff = 100 /\ AllMultiplesOf100(arg.df)) => resTable = arg.df

\* the factor 1.0 applied to the ragged table
C9_Witness ==
    /\ GenerateDone /\ arg.ff = 100 /\ arg.df = PayMatrix7
    /\ resTable[4].cells = <<7800, 8000, 8200, 8400, Blank>>

(***************************************************************************)
(* invest_options.py: age-based allocation, in tenths of a percent         *)
(***************************************************************************)

Pct(n) == 10 * n

possible_invest_choices ==
    {"Active", "Auto_LC25", "Auto_LC50", "Auto_LC75", "Standard/Benchmark"}

Alloc(E, C, G) == [E |-> E, C |-> C, G |-> G]

\* the corporate-bond share of Auto_LC75 between the ages of 36 and 54
LC75Corporate(years_since_35) ==
    IF years_since_35 <= 10 THEN Pct(10) + Pct(years_since_35)
    ELSE IF years_since_35 <= 15 THEN Pct(20)
    ELSE Pct(20) - 2 * Pct(years_since_35 - 15)

\* one row of the matrix get_ecg_matrix builds
EcgRow(investment_option, age) ==
    CASE investment_option = "Standard/Benchmark" -> Alloc(Pct(15), Pct(35), Pct(50))
      [] investment_option = "Auto_LC25" ->
            IF age <= 35 THEN Alloc(Pct(25), Pct(45), Pct(30))
            ELSE IF age >= 55 THEN Alloc(Pct(5), Pct(5), Pct(90))
            ELSE Alloc(Pct(25) - Pct(age - 35), Pct(45) - 2 * Pct(age - 35),
                       Pct(30) + 3 * Pct(age - 35))
      [] investment_option = "Auto_LC50" ->
            IF age <= 35 THEN Alloc(Pct(50), Pct(30), Pct(20))
            ELSE IF age >= 55 THEN Alloc(Pct(10), Pct(10), Pct(80))
            ELSE Alloc(Pct(50) - 2 * Pct(age - 35), Pct(30) - Pct(age - 35),
                       Pct(20) + 3 * Pct(age - 35))
      [] investment_option = "Auto_LC75" ->
            IF age <= 35 THEN Alloc(Pct(75), Pct(10), Pct(15))
            ELSE IF age >= 55 THEN Alloc(Pct(15), Pct(10), Pct(75))
            ELSE Alloc(Pct(75) - 3 * Pct(age - 35), LC75Corporate(age - 35),
                       Pct(15) + 3 * Pct(age - 35))
      [] investment_option = "Active" ->
            IF age <= 50 THEN Alloc(Pct(75), Pct(25), 0)
            ELSE IF age <= 60 THEN Alloc(Pct(75) - 25 * (age - 50), Pct(25),
                                         25 * (age - 50))
            ELSE Alloc(Pct(50), Pct(25), Pct(25))

get_ecg_matrix(investment_option, start_age, end_age) ==
    IF investment_option \notin possible_invest_choices
    THEN [ok |-> FALSE, matrix |-> <<>>]
    ELSE [ok |-> TRUE,
          matrix |-> [age \in start_age..end_age |-> EcgRow(investment_option, age)]]

AllocError == [ok |-> FALSE, E |-> 0, C |-> 0, G |-> 0]

get_investment_allocation(investment_option, age, start_age, end_age) ==
    IF age < start_age \/ age > end_age THEN AllocError
    ELSE LET ecg_matrix == get_ecg_matrix(investment_option, start_age, end_age)
         IN  IF ~ecg_matrix.ok THEN AllocError
             ELSE IF age \in DOMAIN ecg_matrix.matrix
             THEN [ok |-> TRUE, E |-> ecg_matrix.matrix[age].E,
                   C |-> ecg_matrix.matrix[age].C, G |-> ecg_matrix.matrix[age].G]
             ELSE AllocError

\* default start_age and end_age of get_investment_allocation
DefaultStartAge == 20
DefaultEndAge == 60

(***************************************************************************)
(* Specification of the allocation lookup: one call per behaviour          *)
(***************************************************************************)

\* ages tried below the start age and above the end age
AgeMargin == 2

AllocArgs ==
    [investment_option : possible_invest_choices \cup {"Aggressive"},
     age : (DefaultStartAge - AgeMargin)..(DefaultEndAge + AgeMargin)]

InitAlloc ==
    /\ op = "get_investment_allocation"
    /\ arg \in AllocArgs
    /\ called = FALSE
    /\ res = AllocError
    /\ resTable = NoFile
    /\ files = [n \in FileNames |-> NoFile]
    /\ cwdFiles = {}
    /\ pc = "idle" /\ CareerIdle /\ CorpusIdle /\ suspended = NoRun

CallGetInvestmentAllocation ==
    /\ op = "get_investment_allocation" /\ ~called
    /\ called' = TRUE
    /\ res' = get_investment_allocation(arg.investment_option, arg.age,
                                        DefaultStartAge, DefaultEndAge)
    /\ UNCHANGED <<op, arg, resTable, files, cwdFiles, loopVars>>

NextAlloc == CallGetInvestmentAllocation

SpecAlloc == InitAlloc /\ [][NextAlloc]_vars

\* C1: for each of the five strategies and every integer age from 20 to 60
\* the allocation returned satisfies E% + C% + G% = 100
C1_AllocationSumsTo100 ==
    (/\ op = "get_investment_allocation" /\ called
     /\ arg.investment_option \in {"Standard/Benchmark", "Auto_LC25", "Auto_LC50",
                                   "Auto_LC75", "Active"}
     /\ arg.age \in 20..60) =>
        /\ res.ok
        /\ res.E + res.C + res.G = 1000

(***************************************************************************)
(* rates.py: the dearness-allowance matrix.  Keys are half-years, values   *)
(* tenths of a percent (the code rounds projections to one decimal).       *)
(***************************************************************************)

HalfYear(year) == 2 * year

\* the keys 2006, 2006.5, ..., 2025.5 of the historical period
HistoricalKeys == HalfYear(2006)..(HalfYear(2025) + 1)

\* get_historical_DA: the value read for every historical half-year, or the
\* default 6.0 when a data file is missing (historical = <<>>)
get_historical_DA(historical) ==
    [k \in HistoricalKeys |-> IF historical = <<>> THEN 60 ELSE historical[1]]

\* the half-year at which projection starts, 2025.5, and the DA it starts from
ProjectionStart == HalfYear(2025) + 1
StartDA(start_year) == IF start_year = ProjectionStart THEN 500 ELSE 0

\* half the tapered annual inflation rate of period k, times 4 * taper_period_yrs
DAIncrease(initial_inflation_rate, final_inflation_rate, taper_period_yrs, period) ==
    IF period <= 2 * taper_period_yrs
    THEN 2 * taper_period_yrs * initial_inflation_rate
         - (initial_inflation_rate - final_inflation_rate) * period
    ELSE 2 * taper_period_yrs * final_inflation_rate

RECURSIVE AccumulatedIncrease(_, _, _, _)
AccumulatedIncrease(initial_inflation_rate, final_inflation_rate, taper_period_yrs, period) ==
    IF period = 0 THEN 0
    ELSE AccumulatedIncrease(initial_inflation_rate, final_inflation_rate,
                             taper_period_yrs, period - 1)
         + DAIncrease(initial_inflation_rate, final_inflation_rate,
                      taper_period_yrs, period)

\* get_projected_DA: start_year and the 2 * taper_period_yrs half-years after it
get_projected_DA(initial_inflation_rate, final_inflation_rate, taper_period_yrs, start_year) ==
    [k \in start_year..(start_year + 2 * taper_period_yrs) |->
        IF k = start_year THEN StartDA(start_year)
        ELSE RoundHalfEven(
                StartDA(start_year) * 4 * taper_period_yrs
                + 10 * AccumulatedIncrease(initial_inflation_rate, final_inflation_rate,
                                           taper_period_yrs, k - start_year),
                4 * taper_period_yrs)]

\* the commission years whose reset is applied: those that are keys
ResetYears(pay_commission_implement_years, keys) ==
    {HalfYear(pay_commission_implement_years[i]) :
        i \in 1..Len(pay_commission_implement_years)} \cap keys

get_DA_matrix(initial_inflation_rate, final_inflation_rate, taper_period_yrs, pay_commission_implement_years, historical) ==
    LET historical_da == get_historical_DA(historical)
        projected_da == get_projected_DA(initial_inflation_rate, final_inflation_rate,
                                         taper_period_yrs, ProjectionStart)
        keys == DOMAIN historical_da \cup DOMAIN projected_da
        resets == ResetYears(pay_commission_implement_years, keys)
    IN  [k \in keys |->
            IF k \in resets \/ (k + 1) \in resets THEN 0
            ELSE IF k \in DOMAIN projected_da THEN projected_da[k]
            ELSE historical_da[k]]

(***************************************************************************)
(* Specification of the DA matrix: one call per behaviour                  *)
(***************************************************************************)

\* longest taper period tried, in years
MaxTaper == 3

\* strictly ascending sequences of at most n elements of S
AscendingSeqs(S, n) ==
    {s \in UNION {[1..k -> S] : k \in 0..n} :
        \A i \in 1..(Len(s) - 1) : s[i] < s[i + 1]}

DACommissionYears == {2016} \cup (2026..(2026 + MaxTaper))

InflationRates == {<<7, 4>>, <<4, 4>>, <<0, 0>>}

DAArgs ==
    [inflation : InflationRates,
     taper_period_yrs : 1..MaxTaper,
     pay_commission_implement_years : AscendingSeqs(DACommissionYears, MaxCommissions),
     historical : {<<>>, <<0>>, <<170>>}]

NoDA == [ok |-> FALSE, matrix |-> <<>>]

InitDA ==
    /\ op = "get_DA_matrix"
    /\ arg \in DAArgs
    /\ called = FALSE
    /\ res = NoDA
    /\ resTable = NoFile
    /\ files = [n \in FileNames |-> NoFile]
    /\ cwdFiles = {}
    /\ pc = "idle" /\ CareerIdle /\ CorpusIdle /\ suspended = NoRun

CallGetDAMatrix ==
    /\ op = "get_DA_matrix" /\ ~called
    /\ called' = TRUE
    /\ res' = [ok |-> TRUE,
               matrix |-> get_DA_matrix(arg.inflation[1], arg.inflation[2],
                                        arg.taper_period_yrs,
                                        arg.pay_commission_implement_years,
                                        arg.historical)]
    /\ UNCHANGED <<op, arg, resTable, files, cwdFiles, loopVars>>

NextDA == CallGetDAMatrix

SpecDA == InitDA /\ [][NextDA]_vars

\* C6: in the matrix get_DA_matrix returns, for every commission year c of the
\* schedule, the value at key c is 0 and the value at key c - 0.5 is 0
\* (read for the keys the matrix holds)
C6_DAZeroAtCommissionYears ==
    (op = "get_DA_matrix" /\ called) =>
        \A i \in 1..Len(arg.pay_commission_implement_years) :
            LET c == 2 * arg.pay_commission_implement_years[i]
            IN  /\ c \in DOMAIN res.matrix => res.matrix[c] = 0
                /\ (c - 1) \in DOMAIN res.matrix => res.matrix[c - 1] = 0

(***************************************************************************)
(* contribution.py: monthly contributions and corpus growth, in paise      *)
(***************************************************************************)

\* calculate_monthly_contributions; the percentages are whole percents
calculate_monthly_contributions(monthly_salary, employee_contrib_percent, govt_contrib_percent) ==
    [employee_contribution |-> RoundHalfEven(monthly_salary * employee_contrib_percent, 100),
     govt_contribution |-> 100 * govt_contrib_percent,
     total_contribution |->
        RoundHalfEven(monthly_salary * employee_contrib_percent
                      + monthly_salary * govt_contrib_percent, 100)]

\* variant: a rate of 0 is taken as missing and replaced by 12%
CurrentRateOrDefault(interest_rate_tapering_dict, asset) ==
    IF interest_rate_tapering_dict[asset].initial = 0 THEN 12
    ELSE interest_rate_tapering_dict[asset].initial

\* current_rate = interest_rate_tapering_dict[asset]['initial']
CurrentRate(interest_rate_tapering_dict, asset) ==
    interest_rate_tapering_dict[asset].initial

\* weighted_return in thousandths of a percent: share (tenths of a percent)
\* times annual rate (percent), over the asset classes the dict holds
WeightedReturn(alloc, interest_rate_tapering_dict) ==
    (IF "E" \in DOMAIN interest_rate_tapering_dict
     THEN alloc.E * CurrentRate(interest_rate_tapering_dict, "E") ELSE 0)
    + (IF "C" \in DOMAIN interest_rate_tapering_dict
       THEN alloc.C * CurrentRate(interest_rate_tapering_dict, "C") ELSE 0)
    + (IF "G" \in DOMAIN interest_rate_tapering_dict
       THEN alloc.G * CurrentRate(interest_rate_tapering_dict, "G") ELSE 0)

\* round(base + n/d) for integers base, n >= 0, d > 0, ties to even
RoundHalfEvenFrom(base, n, d) ==
    LET q == base + (n \div d)
        r == n % d
    IN  IF 2 * r < d THEN q
        ELSE IF 2 * r > d THEN q + 1
        ELSE IF q % 2 = 0 THEN q ELSE q + 1

\* apply_investment_returns: round(corpus * (1 + monthly_return_rate)
\* + monthly_contribution, 2), monthly_return_rate = weighted_return / 12 / 100
apply_investment_returns(corpus, monthly_contribution, investment_option, age, interest_rate_tapering_dict) ==
    LET alloc == get_investment_allocation(investment_option, age,
                                           DefaultStartAge, DefaultEndAge)
    IN  IF ~alloc.ok THEN [ok |-> FALSE, corpus |-> 0]
        ELSE [ok |-> TRUE,
              corpus |-> RoundHalfEvenFrom(
                            corpus + monthly_contribution,
                            corpus * WeightedReturn(alloc, interest_rate_tapering_dict),
                            1000 * 12 * 100)]

\* current_year = None
NoYear == -1

(***************************************************************************)
(* get_corpus_growth as a state machine: one step per month of the series  *)
(***************************************************************************)

\* longest monthly salary series tried
MaxMonths == 14

\* a series whose salary changes after the first half-year
SalarySeries(n, first, later) == [i \in 1..n |-> IF i <= 6 THEN first ELSE later]

\* DEFAULT_TAPER_PERIOD, in years
DEFAULT_TAPER_PERIOD == 40

\* get_interest_rate_tapering_dict: the initial and final annual return of
\* each asset class, in percent, and the taper period
get_interest_rate_tapering_dict(E_initial, E_final, C_initial, C_final, G_initial, G_final, taper_period_yrs) ==
    [E |-> [initial |-> E_initial, final |-> E_final],
     C |-> [initial |-> C_initial, final |-> C_final],
     G |-> [initial |-> G_initial, final |-> G_final],
     Taper_Period |-> taper_period_yrs]

\* get_tapered_rate, in hundredths of a percent, for whole years and an
\* asset class E, C or G whose final rate is not above its initial rate
get_tapered_rate(asset_class, year, interest_rate_tapering_dict, start_year) ==
    LET initial_rate == interest_rate_tapering_dict[asset_class].initial
        final_rate == interest_rate_tapering_dict[asset_class].final
        taper_period == interest_rate_tapering_dict.Taper_Period
        years_elapsed == year - start_year
    IN  IF year < start_year THEN 100 * initial_rate
        ELSE IF years_elapsed >= taper_period THEN 100 * final_rate
        ELSE RoundHalfEven(100 * (initial_rate * taper_period
                                  - years_elapsed * (initial_rate - final_rate)),
                           taper_period)

\* a dict whose rates do not taper
TaperingDict(e, c, g) ==
    get_interest_rate_tapering_dict(e, e, c, c, g, g, DEFAULT_TAPER_PERIOD)

CorpusArgs ==
    [monthly_salary_detailed :
        {SalarySeries(n, 10037, later) : n \in 0..MaxMonths, later \in {10037, 20050}},
     investment_option : {"Auto_LC75", "Active"},
     interest_rate_tapering_dict :
        {TaperingDict(0, 0, 0), TaperingDict(12, 7, 7), TaperingDict(0, 0, 7),
         get_interest_rate_tapering_dict(12, 6, 8, 4, 8, 4, 1)},
     starting_age : {19, 36, 60},
     employee_contrib_percent : {10},
     govt_contrib_percent : {14},
     existing_corpus : {0, 50000}]

NoCorpus == [ok |-> FALSE, final_corpus |-> 0, yearly_corpus_growth |-> <<>>]

InitCorpus ==
    /\ op = "get_corpus_growth"
    /\ arg \in CorpusArgs
    /\ called = FALSE
    /\ res = NoCorpus
    /\ resTable = NoFile
    /\ files = [n \in FileNames |-> NoFile]
    /\ cwdFiles = {}
    /\ pc = "idle" /\ CareerIdle /\ CorpusIdle /\ suspended = NoRun

\* entry: lines 195-197
CorpusStart ==
    /\ op = "get_corpus_growth" /\ pc = "idle"
    /\ pc' = "loop"
    /\ current_corpus' = arg.existing_corpus
    /\ yearly_corpus_growth' = <<>>
    /\ current_year' = NoYear
    /\ month_index' = 0
    /\ UNCHANGED <<pureVars, fsVars, careerVars, suspended>>

\* one iteration of the loop over monthly_salary_detailed.items()
CorpusMonth ==
    /\ op = "get_corpus_growth" /\ pc = "loop"
    /\ month_index < Len(arg.monthly_salary_detailed)
    /\ LET index == month_index + 1
           monthly_salary == arg.monthly_salary_detailed[index]
           months_elapsed == index - 1
           current_age == arg.starting_age + (months_elapsed \div 12)
           contributions == calculate_monthly_contributions(
                                monthly_salary, arg.employee_contrib_percent,
                                arg.govt_contrib_percent)
           grown == apply_investment_returns(
                        current_corpus, contributions.total_contribution,
                        arg.investment_option, current_age,
                        arg.interest_rate_tapering_dict)
           year == arg.starting_age + (months_elapsed \div 12)
       IN  IF ~grown.ok
           THEN /\ pc' = "error"
                /\ UNCHANGED <<month_index, current_corpus, current_year,
                               yearly_corpus_growth>>
           ELSE /\ pc' = "loop"
                /\ month_index' = index
                /\ current_corpus' = grown.corpus
                /\ current_year' = year
                /\ yearly_corpus_growth' =
                        IF year # current_year
                        THEN [y \in DOMAIN yearly_corpus_growth \cup {year} |->
                                IF y = year THEN grown.corpus
                                ELSE yearly_corpus_growth[y]]
                        ELSE yearly_corpus_growth
    /\ UNCHANGED <<pureVars, fsVars, careerVars, suspended>>

\* after the loop: lines 225-229
CorpusReturn ==
    /\ op = "get_corpus_growth" /\ pc = "loop"
    /\ month_index = Len(arg.monthly_salary_detailed)
    /\ pc' = "done"
    /\ LET yearly ==
            IF current_year \notin DOMAIN yearly_corpus_growth
            THEN [y \in DOMAIN yearly_corpus_growth \cup {current_year} |->
                    IF y = current_year THEN current_corpus
                    ELSE yearly_corpus_growth[y]]
            ELSE yearly_corpus_growth
       IN  /\ yearly_corpus_growth' = yearly
           /\ res' = [ok |-> TRUE, final_corpus |-> current_corpus,
                      yearly_corpus_growth |-> yearly]
    /\ UNCHANGED <<op, arg, called, resTable, fsVars, careerVars, suspended,
                   month_index, current_corpus, current_year>>

NextCorpus == CorpusStart \/ CorpusMonth \/ CorpusReturn

SpecCorpus == InitCorpus /\ [][NextCorpus]_vars

\* the sum of the total contributions of the first n months of the series
RECURSIVE SumOfContributions(_)
SumOfContributions(n) ==
    IF n = 0 THEN 0
    ELSE SumOfContributions(n - 1)
         + calculate_monthly_contributions(
                arg.monthly_salary_detailed[n], arg.employee_contrib_percent,
                arg.govt_contrib_percent).total_contribution

ZeroReturns ==
    \A asset \in {"E", "C", "G"} :
        /\ arg.interest_rate_tapering_dict[asset].initial = 0
        /\ arg.interest_rate_tapering_dict[asset].final = 0

\* C5: with 0% returns on all three asset classes and no pre-existing corpus,
\* the corpus after every simulated month is the sum of the total
\* contributions of the months so far, and the final corpus returned by
\* get_corpus_growth is the sum over all months
C5_ZeroReturnsCorpusIsSumOfContributions ==
    (op = "get_corpus_growth" /\ ZeroReturns /\ arg.existing_corpus = 0) =>
        /\ pc = "loop" => current_corpus = SumOfContributions(month_index)
        /\ pc = "done" =>
            res.final_corpus = SumOfContributions(Len(arg.monthly_salary_detailed))

\* a returned run of more than a year at 0% under Auto_LC75
C5_Witness ==
    /\ op = "get_corpus_growth" /\ pc = "done" /\ res.ok
    /\ ZeroReturns /\ arg.existing_corpus = 0
    /\ arg.investment_option = "Auto_LC75"
    /\ Len(arg.monthly_salary_detailed) = 13
    /\ arg.monthly_salary_detailed[13] = 20050
    /\ res.final_corpus = 6 * 2409 + 7 * 4812

(***************************************************************************)
(* career_progression (pay_commissions.py) as a state machine: one step    *)
(* per half-year slot of the main loop                                     *)
(***************************************************************************)

\* a level column of a pay-table file: `populated` steps, then blanks
LevelColumn(name, first, increment, populated, rows) ==
    [name |-> name,
     cells |-> [k \in 1..rows |->
                    IF k <= populated THEN first + increment * (k - 1) ELSE Blank]]

\* rows of the pay table the career runs on
CareerRows == 8

\* 7th_CPC.csv of the career runs: the standard level list from 9 to 17
PayMatrixCareer ==
    << LevelColumn("9", 5300, 200, CareerRows, CareerRows),
       LevelColumn("10", 5600, 200, CareerRows, CareerRows),
       LevelColumn("11", 6700, 200, CareerRows, CareerRows),
       LevelColumn("12", 7800, 300, CareerRows, CareerRows),
       LevelColumn("13", 11800, 400, 6, CareerRows),
       LevelColumn("13A", 13100, 400, 5, CareerRows),
       LevelColumn("14", 14400, 400, 4, CareerRows),
       LevelColumn("15", 18200, 600, 3, CareerRows),
       LevelColumn("16", 20500, 600, 2, CareerRows),
       LevelColumn("17", 22500, 0, 1, CareerRows) >>

\* DEFAULT_FITMENT_FACTOR = 2, in hundredths
DEFAULT_FITMENT_FACTOR == 200

\* fitment_factors after lines 399-400: the default factor for every
\* commission year when the caller passed None
ResolvedFitmentFactors(a) ==
    IF a.fitment_factors.is_none
    THEN [i \in 1..Len(a.pay_commission_implement_years) |-> DEFAULT_FITMENT_FACTOR]
    ELSE a.fitment_factors.list

\* variant: the two list lengths are not compared
ConfigurationErrorLengthsUnchecked(a, df) ==
    \/ ~HasLevel(df, a.starting_level)
    \/ a.early_retirement /\ a.dor = <<>>

\* the validation section, lines 398-412
ConfigurationError(a, df) ==
    \/ /\ ~a.fitment_factors.is_none
       /\ Len(a.fitment_factors.list) # Len(a.pay_commission_implement_years)
    \/ ~HasLevel(df, a.starting_level)
    \/ a.early_retirement /\ a.dor = <<>>

\* variant: retirement 61 years after birth
get_retirement_dateAt61(dob) == <<dob[1] + 61, dob[2]>>

\* get_retirement_date: the last day of the birth month, 60 years on
get_retirement_date(dob) == <<dob[1] + 60, dob[2]>>

\* a date <<year, month>> as a half-year: 0.5 is added after June
HalfYearOf(date) == 2 * date[1] + (IF date[2] > 6 THEN 1 ELSE 0)

\* service_joining_year and retirement_year after lines 417-430
ServiceJoiningYear(a) == HalfYearOf(a.doj)
RetirementYear(a) ==
    IF a.early_retirement THEN HalfYearOf(a.dor)
    ELSE HalfYearOf(get_retirement_date(a.dob))

\* max_service_years, in half-years
MaxServiceYears(a) == RetirementYear(a) - ServiceJoiningYear(a)

RECURSIVE SumFirst(_, _)
SumFirst(s, n) == IF n = 0 THEN 0 ELSE SumFirst(s, n - 1) + s[n]

\* promotion_due_years_array: accumulate(..., initial=joining year)[1:]
PromotionDueYear(a, i) == a.doj[1] + SumFirst(a.promotion_duration_array, i)

\* variant: the loop stops one slot early
InServiceExclusive(duration, max_service_years) == duration < max_service_years

\* the loop condition, line 454
InService(duration, max_service_years) == duration <= max_service_years

\* the record appended at the end of a slot
ServiceDetails(level, year_row, pay, duration, year) ==
    [Level |-> level, YearRowInLevel |-> year_row, BasicPay |-> pay,
     YearsOfService |-> duration, Year |-> year]

\* ---- inputs

\* commission years before the joining year, within the service and after it
CommissionYears == {2020, 2026, 2040}
CareerFactors == {171, 200}

\* None, a list matching the schedule, or a single factor whatever the schedule
FitmentInputs(schedule) ==
    {[is_none |-> TRUE, list |-> <<>>]} \cup
    {[is_none |-> FALSE, list |-> l] :
        l \in [1..Len(schedule) -> CareerFactors] \cup [1..1 -> CareerFactors]}

CommissionInputs ==
    UNION {{[years |-> s, factors |-> f] : f \in FitmentInputs(s)} :
                s \in AscendingSeqs(CommissionYears, MaxCommissions)}

RetirementInputs ==
    {[early_retirement |-> FALSE, dor |-> <<>>],
     [early_retirement |-> TRUE, dor |-> <<>>],
     [early_retirement |-> TRUE, dor |-> <<2023, 3>>],
     [early_retirement |-> TRUE, dor |-> <<2029, 3>>]}

\* a table a previous run may have left behind
Leftover == CpcFileName(8, DEFAULT_FITMENT_FACTOR)

\* the files found when the run starts, beside 7th_CPC.csv in the data folder
Environments ==
    {[data_folder |-> {}, working_directory |-> {}],
     [data_folder |-> {Leftover}, working_directory |-> {Leftover}],
     [data_folder |-> {}, working_directory |-> {Leftover}]}

CareerArgs ==
    {[starting_level |-> level,
      starting_year_row_in_level |-> step,
      present_pay_matrix_csv |-> PAY_MATRIX_7CPC_CSV,
      promotion_duration_array |-> promotions,
      early_retirement |-> retirement.early_retirement,
      dob |-> <<1969, 8>>,
      doj |-> doj,
      dor |-> retirement.dor,
      is_ias |-> ias,
      pay_commission_implement_years |-> commissions.years,
      fitment_factors |-> commissions.factors,
      environment |-> environment] :
        level \in {"9", "10", "13", "15", "17", "99"},
        step \in {1, CareerRows - 1},
        promotions \in {<<>>, <<4>>, <<2, 2>>},
        environment \in Environments,
        retirement \in RetirementInputs,
        doj \in {<<2024, 1>>, <<2024, 10>>},
        ias \in BOOLEAN,
        commissions \in CommissionInputs}

Init ==
    /\ op = "career_progression"
    /\ arg \in CareerArgs
    \* is_ias only bears on promotions
    /\ arg.promotion_duration_array = <<>> => ~arg.is_ias
    \* level 13 is tried for its IAS promotion, a late starting step at level 10
    /\ arg.starting_level = "13" => arg.is_ias
    /\ arg.starting_year_row_in_level # 1 => arg.starting_level = "10"
    \* a table left behind only bears on a commission that can fire
    /\ arg.environment.working_directory # {} =>
            \E i \in 1..Len(arg.pay_commission_implement_years) :
                arg.pay_commission_implement_years[i] = 2026
    /\ called = FALSE
    /\ res = NoPay
    /\ resTable = NoFile
    /\ files = [n \in FileNames |->
                    IF n = PAY_MATRIX_7CPC_CSV THEN PayMatrixCareer
                    ELSE IF n \in arg.environment.data_folder
                    THEN DeriveTable(PayMatrixCareer, n.ff)
                    ELSE NoFile]
    /\ cwdFiles = arg.environment.working_directory
    /\ pc = "idle" /\ CareerIdle /\ CorpusIdle /\ suspended = NoRun

\* lines 394-446: load the table, validate, initialise the locals
CareerStart ==
    /\ op = "career_progression" /\ pc = "idle"
    /\ LET df == files[arg.present_pay_matrix_csv]
       IN  IF df = NoFile \/ ConfigurationError(arg, df)
                \/ arg.starting_year_row_in_level \notin 1..NRows(df)
           THEN /\ pc' = "error"
                /\ UNCHANGED careerVars
           ELSE /\ pc' = "loop"
                /\ current_pay_matrix' = df
                /\ present_pay_matrix_csv' = arg.present_pay_matrix_csv
                /\ present_pay_comm_no' =
                        extract_cpc_no_from_filename(arg.present_pay_matrix_csv)
                /\ pay_level' = arg.starting_level
                /\ year_row_in_current_pay_level' = arg.starting_year_row_in_level
                /\ basic_pay' = Column(df, arg.starting_level)[arg.starting_year_row_in_level]
                /\ promotion_yr_array_index' = 0
                /\ pay_commission_index' = 0
                /\ current_service_duration' = 0
                /\ progression' = <<>>
    /\ UNCHANGED <<pureVars, fsVars, corpusVars, suspended>>

\* the calendar half-year of the slot under way, line 462
SlotYear == ServiceJoiningYear(arg) + current_service_duration

SlotOpen ==
    /\ op = "career_progression" /\ pc = "loop"
    /\ InService(current_service_duration, MaxServiceYears(arg))

\* a slot aborted by an exception: the locals are lost
SlotRaises ==
    /\ pc' = "error"
    /\ UNCHANGED careerVars

\* a slot run to its end: the record is appended and the duration advances
SlotEnds(level, year_row, pay) ==
    /\ pc' = "loop"
    /\ pay_level' = level
    /\ year_row_in_current_pay_level' = year_row
    /\ basic_pay' = pay
    /\ progression' = Append(progression,
            ServiceDetails(level, year_row, pay, current_service_duration, SlotYear))
    /\ current_service_duration' = current_service_duration + 1

\* variant: the increment block runs in year-end slots as well
AfterIncrementEverySlot(slot_year, duration, level, year_row, pay, df) ==
    IF duration >= 1 THEN annual_increment(level, year_row, df)
    ELSE PayResult(level, year_row, pay)

\* the increment block that opens the loop body, lines 468-476: the annual
\* increment when year % 1 == 0.5 and current_service_duration >= 0.5,
\* otherwise level, step and pay as they were
AfterIncrement(slot_year, duration, level, year_row, pay, df) ==
    IF slot_year % 2 = 1 /\ duration >= 1 THEN annual_increment(level, year_row, df)
    ELSE PayResult(level, year_row, pay)

\* a mid-year (x.5) slot, lines 455-476 and 524-532: the annual increment,
\* except in the joining slot
MidYearSlot ==
    /\ SlotOpen
    /\ SlotYear % 2 = 1
    /\ LET incremented == AfterIncrement(SlotYear, current_service_duration, pay_level,
                                         year_row_in_current_pay_level, basic_pay,
                                         current_pay_matrix)
       IN  IF basic_pay = Blank \/ ~incremented.ok THEN SlotRaises
           ELSE SlotEnds(incremented.level, incremented.year, incremented.pay)
    /\ UNCHANGED <<current_pay_matrix, present_pay_matrix_csv, present_pay_comm_no,
                   promotion_yr_array_index, pay_commission_index>>
    /\ UNCHANGED <<pureVars, fsVars, corpusVars, suspended>>

\* variant: the promotion reads the table in force before the slot
PromotionTableBefore(before, after) == before

\* the table the promotion reads (pay_matrix_df=current_pay_matrix, line 515):
\* the one assigned by the commission block just above it
PromotionTable(before, after) == after

\* a year-end (x.0) slot, lines 455-459 and 478-532: the commission switch,
\* then the promotion
YearEndSlot ==
    /\ SlotOpen
    /\ SlotYear % 2 = 0
    /\ LET schedule == arg.pay_commission_implement_years
           \* pay_commission_implement_years[pay_commission_index] is read
           \* before the index is compared with the length
           index_error == pay_commission_index >= Len(schedule)
           commission ==
                /\ ~index_error
                /\ SlotYear = HalfYear(schedule[pay_commission_index + 1])
           fit_factor == ResolvedFitmentFactors(arg)[pay_commission_index + 1]
           next_pay_comm_fileName == CpcFileName(present_pay_comm_no + 1, fit_factor)
           \* os.path.exists looks in the working directory, the load in the
           \* data folder
           exists == next_pay_comm_fileName \in cwdFiles
           generated == commission /\ ~exists /\ files[present_pay_matrix_csv] # NoFile
           promotion ==
                /\ promotion_yr_array_index < Len(arg.promotion_duration_array)
                /\ SlotYear = HalfYear(PromotionDueYear(arg, promotion_yr_array_index + 1))
       IN  \* the table in force after the commission check, the pay fixation
           \* and the promotion read from it (each computed once)
           \E matrix \in {IF ~commission THEN current_pay_matrix
                          ELSE IF exists THEN files[next_pay_comm_fileName]
                          ELSE GeneratedTable(fit_factor, present_pay_matrix_csv, files)} :
           \* level, step and pay as the increment block leaves them
           \E start \in {AfterIncrement(SlotYear, current_service_duration, pay_level,
                                        year_row_in_current_pay_level, basic_pay,
                                        current_pay_matrix)} :
           \E fixation \in {get_basic_pay(start.level, start.year, matrix)} :
           \E promoted \in {promote_employee(start.level, start.year,
                                             PromotionTable(current_pay_matrix, matrix),
                                             arg.is_ias)} :
           /\ files' = IF basic_pay # Blank /\ generated
                       THEN [files EXCEPT ![next_pay_comm_fileName] = matrix]
                       ELSE files
           /\ IF \/ basic_pay = Blank
                 \/ ~start.ok
                 \/ index_error
                 \/ commission /\ (matrix = NoFile \/ ~fixation.ok)
                 \/ promotion /\ ~promoted.ok
              THEN SlotRaises
              ELSE /\ current_pay_matrix' = matrix
                   /\ present_pay_matrix_csv' =
                        IF commission THEN next_pay_comm_fileName
                        ELSE present_pay_matrix_csv
                   /\ present_pay_comm_no' =
                        IF commission THEN present_pay_comm_no + 1
                        ELSE present_pay_comm_no
                   /\ pay_commission_index' =
                        IF commission THEN pay_commission_index + 1
                        ELSE pay_commission_index
                   /\ promotion_yr_array_index' =
                        IF promotion THEN promotion_yr_array_index + 1
                        ELSE promotion_yr_array_index
                   /\ IF promotion
                      THEN SlotEnds(promoted.level, promoted.year, promoted.pay)
                      ELSE IF commission
                      THEN SlotEnds(start.level, start.year, fixation.pay)
                      ELSE SlotEnds(start.level, start.year, start.pay)
    /\ UNCHANGED <<pureVars, cwdFiles, corpusVars, suspended>>

\* the loop condition fails: return progression, line 534
CareerReturn ==
    /\ op = "career_progression" /\ pc = "loop"
    /\ ~InService(current_service_duration, MaxServiceYears(arg))
    /\ pc' = "done"
    /\ UNCHANGED <<pureVars, fsVars, careerVars, corpusVars, suspended>>

Next == CareerStart \/ MidYearSlot \/ YearEndSlot \/ CareerReturn

Spec == Init /\ [][Next]_vars

\* the loop is ordinary sequential code: it keeps running while it can
FairSpec == Spec /\ WF_vars(Next)

(***************************************************************************)
(* Properties of career_progression                                        *)
(***************************************************************************)

\* the pay of (level, step) in a table: the cell, or the level's ceiling pay
\* from the last populated step on
PayAt(df, level, step) ==
    LET col == Column(df, level)
    IN  col[Min(step, MaxSteps(col))]

\* this step is a year-end slot that ran to its end, in which the commission
\* with the given factor fired and no promotion did
CommissionOnlySlot(factor) ==
    /\ op = "career_progression" /\ pc = "loop" /\ pc' = "loop"
    /\ pay_commission_index' = pay_commission_index + 1
    /\ ResolvedFitmentFactors(arg)[pay_commission_index + 1] = factor
    /\ promotion_yr_array_index' = promotion_yr_array_index

\* C3: when a commission with fitment factor 2.0 fires at a year-end slot in
\* which no promotion is due, the record of the slot has the level and step
\* of the record before it, and its basic pay is twice the pay that (level,
\* step) had in the table in force before the switch
C3_FitmentTwoDoublesPay ==
    [][CommissionOnlySlot(200) =>
        LET record == progression'[Len(progression')]
        IN  /\ record.Level = pay_level
            /\ record.YearRowInLevel = year_row_in_current_pay_level
            /\ Len(progression) > 0 =>
                /\ record.Level = progression[Len(progression)].Level
                /\ record.YearRowInLevel = progression[Len(progression)].YearRowInLevel
            /\ record.BasicPay =
                2 * PayAt(current_pay_matrix, pay_level, year_row_in_current_pay_level)
      ]_vars

\* the slot (1-based position in the trajectory) of calendar year `year`
SlotOfYear(year) == 2 * year - HalfYearOf(arg.doj) + 1

\* C4: with a promotion schedule of exactly one entry of 4 years, whose slot
\* lies in the service window, the level of the returned trajectory changes
\* exactly once, at the year-end slot 4 calendar years after the joining
\* year, and every later record keeps the new level
C4_SinglePromotionChangesLevelOnce ==
    (/\ op = "career_progression" /\ pc = "done"
     /\ arg.promotion_duration_array = <<4>>
     /\ SlotOfYear(arg.doj[1] + 4) \in 1..Len(progression)) =>
        LET k == SlotOfYear(arg.doj[1] + 4)
        IN  /\ \A i \in 1..(k - 1) : progression[i].Level = arg.starting_level
            /\ progression[k].Level # arg.starting_level
            /\ \A i \in k..Len(progression) :
                    progression[i].Level = progression[k].Level

\* the trajectory holds n records, the i-th (from 0) with Year = J + 0.5 * i
\* and Years of Service = 0.5 * i
OneRecordPerSlot(n) ==
    /\ Len(progression) = n
    /\ \A i \in 1..Len(progression) :
        /\ progression[i].Year = HalfYearOf(arg.doj) + (i - 1)
        /\ progression[i].YearsOfService = i - 1

Terminated == pc \in {"done", "error"}

\* the retirement half-year R of the claim
ClaimedRetirement ==
    IF arg.early_retirement THEN HalfYearOf(arg.dor)
    ELSE HalfYearOf(<<arg.dob[1] + 60, arg.dob[2]>>)

\* C10 as stated: the loop terminates for every joining/retirement pair, and
\* a returned trajectory holds 2 * (R - J) + 1 records, one per half-year slot
C10_TerminatesWithOneRecordPerSlot ==
    /\ <>Terminated
    /\ [](pc = "done" =>
            OneRecordPerSlot(ClaimedRetirement - HalfYearOf(arg.doj) + 1))

\* C10 amended: the loop terminates for every joining/retirement pair, and a
\* returned trajectory holds 2 * (R - J) + 1 records, one per half-year slot,
\* when R >= J, and no record when the retirement precedes the joining
C10_TerminatesWithOneRecordPerSlotOfWindow ==
    /\ <>Terminated
    /\ [](pc = "done" =>
            IF ClaimedRetirement >= HalfYearOf(arg.doj)
            THEN OneRecordPerSlot(ClaimedRetirement - HalfYearOf(arg.doj) + 1)
            ELSE OneRecordPerSlot(0))

\* a returned trajectory of eleven slots, one of them a year-end slot in
\* which neither a commission nor a promotion fired
C10_Witness ==
    /\ op = "career_progression" /\ pc = "done"
    /\ ClaimedRetirement - HalfYearOf(arg.doj) = 10
    /\ OneRecordPerSlot(11)
    /\ \E i \in 2..Len(progression) :
        /\ progression[i].Year % 2 = 0
        /\ progression[i].Level = progression[i - 1].Level
        /\ progression[i].YearRowInLevel = progression[i - 1].YearRowInLevel
        /\ progression[i].BasicPay = progression[i - 1].BasicPay

(***************************************************************************)
(* Two career_progression runs sharing the data folder: the processor      *)
(* passes from one run to the other between two half-year slots            *)
(***************************************************************************)

\* commissions of each of the two runs
InterleavedCommissions == MaxCommissions + 1

\* both runs: level 10 from January 2024, one commission in each of the
\* following years, early retirement in the year of the last one
InterleavedArgs ==
    {[starting_level |-> "10",
      starting_year_row_in_level |-> 1,
      present_pay_matrix_csv |-> PAY_MATRIX_7CPC_CSV,
      promotion_duration_array |-> <<>>,
      early_retirement |-> TRUE,
      dob |-> <<1969, 8>>,
      doj |-> <<2024, 1>>,
      dor |-> <<2024 + InterleavedCommissions, 3>>,
      is_ias |-> FALSE,
      pay_commission_implement_years |-> [i \in 1..InterleavedCommissions |-> 2024 + i],
      fitment_factors |-> [is_none |-> FALSE, list |-> factors],
      environment |-> [data_folder |-> {}, working_directory |-> {}]] :
        factors \in [1..InterleavedCommissions -> CareerFactors]}

\* a run that has not started yet
WaitingRun(a) ==
    [pc |-> "idle", arg |-> a,
     current_pay_matrix |-> NoFile,
     present_pay_matrix_csv |-> PAY_MATRIX_7CPC_CSV,
     present_pay_comm_no |-> 0,
     pay_level |-> "",
     year_row_in_current_pay_level |-> 0,
     basic_pay |-> 0,
     promotion_yr_array_index |-> 0,
     pay_commission_index |-> 0,
     current_service_duration |-> 0,
     progression |-> <<>>]

InitInterleaved ==
    /\ op = "career_progression"
    /\ arg \in InterleavedArgs
    /\ suspended \in {WaitingRun(a) : a \in InterleavedArgs}
    /\ suspended.arg.fitment_factors # arg.fitment_factors
    /\ called = FALSE
    /\ res = NoPay
    /\ resTable = NoFile
    /\ files = FreshFiles(PayMatrixCareer)
    /\ cwdFiles = {}
    /\ pc = "idle" /\ CareerIdle /\ CorpusIdle

\* the running run is set aside with its locals and the other one resumes
Switch ==
    /\ op = "career_progression" /\ suspended # NoRun
    /\ suspended' =
            [pc |-> pc, arg |-> arg,
             current_pay_matrix |-> current_pay_matrix,
             present_pay_matrix_csv |-> present_pay_matrix_csv,
             present_pay_comm_no |-> present_pay_comm_no,
             pay_level |-> pay_level,
             year_row_in_current_pay_level |-> year_row_in_current_pay_level,
             basic_pay |-> basic_pay,
             promotion_yr_array_index |-> promotion_yr_array_index,
             pay_commission_index |-> pay_commission_index,
             current_service_duration |-> current_service_duration,
             progression |-> progression]
    /\ pc' = suspended.pc
    /\ arg' = suspended.arg
    /\ current_pay_matrix' = suspended.current_pay_matrix
    /\ present_pay_matrix_csv' = suspended.present_pay_matrix_csv
    /\ present_pay_comm_no' = suspended.present_pay_comm_no
    /\ pay_level' = suspended.pay_level
    /\ year_row_in_current_pay_level' = suspended.year_row_in_current_pay_level
    /\ basic_pay' = suspended.basic_pay
    /\ promotion_yr_array_index' = suspended.promotion_yr_array_index
    /\ pay_commission_index' = suspended.pay_commission_index
    /\ current_service_duration' = suspended.current_service_duration
    /\ progression' = suspended.progression
    /\ UNCHANGED <<op, called, res, resTable, fsVars, corpusVars>>

NextInterleaved == CareerStart \/ MidYearSlot \/ YearEndSlot \/ CareerReturn \/ Switch

SpecInterleaved == InitInterleaved /\ [][NextInterleaved]_vars

\* the base table with the first k factors of the list applied in order
RECURSIVE FactorsApplied(_, _, _)
FactorsApplied(df, factors, k) ==
    IF k = 0 THEN df ELSE DeriveTable(FactorsApplied(df, factors, k - 1), factors[k])

\* the table a run holds is the base table with its own first factors applied
OwnTable(position, a, matrix, index) ==
    position \in {"loop", "done"} =>
        matrix = FactorsApplied(PayMatrixCareer, ResolvedFitmentFactors(a), index)

\* C11: two interleaved runs share no mutable state: in each of them the
\* table in force after its k-th commission is the base table with its own
\* first k fitment factors applied in order
C11_InterleavedRunsKeepOwnTables ==
    /\ OwnTable(pc, arg, current_pay_matrix, pay_commission_index)
    /\ suspended # NoRun =>
            OwnTable(suspended.pc, suspended.arg, suspended.current_pay_matrix,
                     suspended.pay_commission_index)

(***************************************************************************)
(* Properties of the validation section of career_progression              *)
(***************************************************************************)

\* the data folder as the run found it
FilesAtStart ==
    [n \in FileNames |->
        IF n = PAY_MATRIX_7CPC_CSV THEN PayMatrixCareer
        ELSE IF n \in arg.environment.data_folder
        THEN DeriveTable(PayMatrixCareer, n.ff)
        ELSE NoFile]

ListsDifferInLength ==
    /\ ~arg.fitment_factors.is_none
    /\ Len(arg.fitment_factors.list) # Len(arg.pay_commission_implement_years)

StartingLevelUnknown ==
    \A i \in 1..Len(PayMatrixCareer) : PayMatrixCareer[i].name # arg.starting_level

EarlyRetirementUndated == arg.early_retirement /\ arg.dor = <<>>

\* the run has not gone past its validation section: no record, no table
\* derived or written
NothingProduced ==
    /\ pc \in {"idle", "error"}
    /\ progression = <<>>
    /\ current_pay_matrix = NoFile
    /\ files = FilesAtStart

\* C12: when the fitment-factor list and the commission-year list differ in
\* length, or the starting level is not a column of the pay table, or early
\* retirement is requested with no retirement date, career_progression raises
\* before the simulation loop starts: no trajectory record has been produced
\* and no pay table has been derived or written
C12_InvalidConfigurationRaisesBeforeLoop ==
    (/\ op = "career_progression"
     /\ ListsDifferInLength \/ StartingLevelUnknown \/ EarlyRetirementUndated) =>
        /\ NothingProduced
        /\ pc # "idle" => pc = "error"

\* a run that raised for exactly one of the three reasons
C12_Witness ==
    /\ op = "career_progression" /\ pc = "error" /\ NothingProduced
    /\ \/ ListsDifferInLength /\ ~StartingLevelUnknown /\ ~EarlyRetirementUndated
       \/ ~ListsDifferInLength /\ StartingLevelUnknown /\ ~EarlyRetirementUndated
       \/ ~ListsDifferInLength /\ ~StartingLevelUnknown /\ EarlyRetirementUndated

\* levels a career can still reach from the starting level: the columns after
\* it, less those an IAS career skips
ReachableLevels ==
    LET first == LevelIndex(PayMatrixCareer, arg.starting_level)
    IN  Cardinality({i \in (first + 1)..Len(PayMatrixCareer) :
                        ~(arg.is_ias /\ PayMatrixCareer[i].name \in levels_to_skip)})

\* C13: a promotion schedule with more entries than there are levels
\* reachable from the starting level (one fewer per level an IAS career
\* skips) is rejected as a configuration error before the simulation loop
\* starts
C13_OverlongPromotionScheduleRejected ==
    (/\ op = "career_progression"
     /\ ~StartingLevelUnknown
     /\ Len(arg.promotion_duration_array) > ReachableLevels) =>
        /\ NothingProduced
        /\ pc # "idle" => pc = "error"

(***************************************************************************)
(* The monthly salary series: get_monthly_salary (salary.py) and the loop  *)
(* of main_function (all_data.py); amounts of the series in paise          *)
(***************************************************************************)

\* round(half_year_salary / 12.0, 2), the salary in rupees
MonthlySalary(half_year_salary) == RoundHalfEven(half_year_salary * 100, 12)

\* the default salary of get_monthly_salary when the salary matrix is empty
DefaultHalfYearSalary == 50000

SalaryError == [ok |-> FALSE, monthly_salary_detailed |-> <<>>]

\* the k-th smallest element of a set of half-years
RECURSIVE KthSmallest(_, _)
KthSmallest(S, k) ==
    LET least == CHOOSE x \in S : \A y \in S : x <= y
    IN  IF k = 1 THEN least ELSE KthSmallest(S \ {least}, k - 1)

\* get_monthly_salary: six months per half-year of the trajectory, numbered
\* from 1 at the first half-year, each holding the half-year's monthly amount
get_monthly_salary(salary_matrix, years) ==
    LET available == DOMAIN salary_matrix
        earlier(year) == {y \in available : y < year}
        Missing(year) == year \notin available /\ available # {} /\ earlier(year) = {}
        half_year_salary(year) ==
            IF year \in available THEN salary_matrix[year]
            ELSE IF available # {}
            THEN salary_matrix[CHOOSE p \in earlier(year) : \A y \in earlier(year) : y <= p]
            ELSE DefaultHalfYearSalary
    IN  IF \E year \in years : Missing(year) THEN SalaryError
        ELSE [ok |-> TRUE,
              monthly_salary_detailed |->
                [entry \in 1..(6 * Cardinality(years)) |->
                    MonthlySalary(half_year_salary(
                        KthSmallest(years, (entry - 1) \div 6 + 1)))]]

\* main_function, step 2.5: the same series from the items of the salary
\* matrix, in the order of the trajectory
MonthlySalaryDetailed(salary_matrix) ==
    [ok |-> TRUE,
     monthly_salary_detailed |->
        [entry \in 1..(6 * Cardinality(DOMAIN salary_matrix)) |->
            MonthlySalary(salary_matrix[
                KthSmallest(DOMAIN salary_matrix, (entry - 1) \div 6 + 1)])]]

\* ---- inputs: a joining date in 2024, a retirement date in the next year,
\* dates as <<year, month, day>>

SalaryDays == {1, 16}
StartingSalaries == {24000, 30001}
SalaryStep == 600

\* longest service of the salary inputs, in years after the joining year
MaxSalaryYears == 1

SalaryArgs ==
    {[doj |-> <<2024, jm, jd>>,
      dor |-> <<2024 + ry, rm, 28>>,
      starting_salary |-> s,
      drop_last |-> drop] :
        jm \in 1..12, jd \in SalaryDays, ry \in 1..MaxSalaryYears, rm \in 1..12,
        s \in StartingSalaries, drop \in BOOLEAN}

\* the half-years of the trajectory: one record per slot from the joining
\* to the retirement half-year
TrajectoryYears(a) == HalfYearOf(a.doj)..HalfYearOf(a.dor)

\* the salary matrix of the trajectory: one entry per record (get_salary_matrix),
\* or the same less its last entry
SalaryMatrix(a) ==
    [year \in (IF a.drop_last THEN TrajectoryYears(a) \ {HalfYearOf(a.dor)}
               ELSE TrajectoryYears(a)) |->
        a.starting_salary + SalaryStep * (year - HalfYearOf(a.doj))]

InitSalary ==
    /\ op \in {"get_monthly_salary", "main_function"}
    /\ arg \in SalaryArgs
    \* main_function builds the salary matrix from the whole trajectory
    /\ op = "main_function" => ~arg.drop_last
    /\ called = FALSE
    /\ res = SalaryError
    /\ resTable = NoFile
    /\ files = FreshFiles(PayMatrix7)
    /\ cwdFiles = {}
    /\ pc = "idle" /\ CareerIdle /\ CorpusIdle /\ suspended = NoRun

CallGetMonthlySalary ==
    /\ op = "get_monthly_salary" /\ ~called
    /\ called' = TRUE
    /\ res' = get_monthly_salary(SalaryMatrix(arg), TrajectoryYears(arg))
    /\ UNCHANGED <<op, arg, resTable, files, cwdFiles, loopVars>>

CallMainFunction ==
    /\ op = "main_function" /\ ~called
    /\ called' = TRUE
    /\ res' = MonthlySalaryDetailed(SalaryMatrix(arg))
    /\ UNCHANGED <<op, arg, resTable, files, cwdFiles, loopVars>>

NextSalary == CallGetMonthlySalary \/ CallMainFunction

SpecSalary == InitSalary /\ [][NextSalary]_vars

\* ---- properties of the monthly salary series

\* a calendar month as a count of months
MonthCount(year, month) == 12 * year + (month - 1)

\* the calendar month of an entry of the series: entry 1 is the January or
\* the July that opens the joining half-year
MonthOfEntry(entry) ==
    MonthCount(arg.doj[1], IF arg.doj[2] > 6 THEN 7 ELSE 1) + (entry - 1)

DaysInMonth(year, month) ==
    IF month = 2 THEN (IF year % 4 = 0 THEN 29 ELSE 28)
    ELSE IF month \in {4, 6, 9, 11} THEN 30 ELSE 31

\* floor(half_year_salary / 12 * served_days / days_in_month), in paise
ProratedJoiningMonth ==
    LET days == DaysInMonth(arg.doj[1], arg.doj[2])
        served_days == days - arg.doj[3] + 1
    IN  (SalaryMatrix(arg)[HalfYearOf(arg.doj)] * 100 * served_days) \div (12 * days)

\* C14: in the monthly salary series every month before the joining date and
\* every month after the retirement date has value exactly 0, and the joining
\* month holds the half-year's monthly amount prorated by days served in that
\* month / days in that month
C14_SeriesZeroOutsideServiceAndProrated ==
    (op \in {"get_monthly_salary", "main_function"} /\ called /\ res.ok) =>
        LET series == res.monthly_salary_detailed
            joining == MonthCount(arg.doj[1], arg.doj[2])
            retirement == MonthCount(arg.dor[1], arg.dor[2])
        IN  \A entry \in DOMAIN series :
                LET month == MonthOfEntry(entry)
                    difference == series[entry] - ProratedJoiningMonth
                IN  /\ month < joining => series[entry] = 0
                    /\ month > retirement => series[entry] = 0
                    /\ month = joining =>
                        \* within one rupee
                        /\ difference <= 100
                        /\ -difference <= 100

(***************************************************************************)
(* The yearly corpus trace of get_corpus_growth                            *)
(***************************************************************************)

\* the year (age) of the last month of the series
LastSimulatedYear ==
    arg.starting_age + ((Len(arg.monthly_salary_detailed) - 1) \div 12)

\* C15: for every monthly salary series of one month or more, the final
\* corpus get_corpus_growth returns equals the snapshot stored for the last
\* simulated year
C15_FinalCorpusIsLastYearSnapshot ==
    (/\ op = "get_corpus_growth" /\ pc = "done" /\ res.ok
     /\ Len(arg.monthly_salary_detailed) >= 1) =>
        /\ LastSimulatedYear \in DOMAIN res.yearly_corpus_growth
        /\ res.final_corpus = res.yearly_corpus_growth[LastSimulatedYear]

(***************************************************************************)
(* Properties of get_level_year_from_basic_pay                             *)
(***************************************************************************)

LocateDone == op = "get_level_year_from_basic_pay" /\ called

\* the cells of the level columns of the table that hold the amount
CellsHolding(amount, df) ==
    {m \in (1..Len(df)) \X (1..NRows(df)) :
        IsLevelColumn(df[m[1]]) /\ df[m[1]].cells[m[2]] = amount}

\* C16: for every amount that occurs in the pay table,
\* get_level_year_from_basic_pay returns, among all cells equal to that
\* amount, the one in the highest level and, within that level, at the lowest
\* step; get_basic_pay applied to the returned (level, step) gives back the
\* amount
C16_LocateHighestLevelLowestStep ==
    (LocateDone /\ arg.basic_pay # Blank
        /\ CellsHolding(arg.basic_pay, arg.df) # {}) =>
        /\ res.ok
        /\ HasLevel(arg.df, res.level)
        /\ <<LevelIndex(arg.df, res.level), res.year>>
                \in CellsHolding(arg.basic_pay, arg.df)
        /\ \A m \in CellsHolding(arg.basic_pay, arg.df) :
                \/ m[1] < LevelIndex(arg.df, res.level)
                \/ m[1] = LevelIndex(arg.df, res.level) /\ m[2] >= res.year
        /\ get_basic_pay(res.level, res.year, arg.df)
                = PayResult(res.level, res.year, arg.basic_pay)

\* an amount held by a lower level at a later step than the one returned
C16_Witness ==
    /\ LocateDone /\ res.ok /\ HasLevel(arg.df, res.level)
    /\ arg.df = PayMatrixOdd /\ arg.basic_pay = 2050
    /\ res.level = "2" /\ res.year = 2
    /\ \E m \in CellsHolding(arg.basic_pay, arg.df) :
            m[1] < LevelIndex(arg.df, res.level) /\ m[2] > res.year

SlotCompleted == op = "career_progression" /\ pc = "loop" /\ pc' = "loop"

\* the position in the schedule of the commission year of the slot under
\* way, 0 when the slot is no commission year
ScheduledCommission ==
    LET schedule == arg.pay_commission_implement_years
    IN  IF \E i \in 1..Len(schedule) : HalfYear(schedule[i]) = SlotYear
        THEN CHOOSE i \in 1..Len(schedule) : HalfYear(schedule[i]) = SlotYear
        ELSE 0

\* C18: in a year-end slot in which both a commission and a promotion are
\* due, the commission switch is applied first: the promotion's stepped pay,
\* target-level search and resulting basic pay are all read from the newly
\* derived table, never from the table in force before the slot
C18_CommissionBeforePromotion ==
    [][(/\ SlotCompleted
        /\ pay_commission_index' = pay_commission_index + 1
        /\ promotion_yr_array_index' = promotion_yr_array_index + 1) =>
            LET derived == DeriveTable(current_pay_matrix,
                              ResolvedFitmentFactors(arg)[pay_commission_index + 1])
                promoted == promote_employee(pay_level, year_row_in_current_pay_level,
                                             derived, arg.is_ias)
                record == progression'[Len(progression')]
            IN  /\ current_pay_matrix' = derived
                /\ promoted.ok
                /\ pay_level' = promoted.level
                /\ year_row_in_current_pay_level' = promoted.year
                /\ basic_pay' = promoted.pay
                /\ record.Level = promoted.level
                /\ record.YearRowInLevel = promoted.year
                /\ record.BasicPay = promoted.pay
      ]_vars

\* the record of January 2026 of a run in which the first commission and the
\* first promotion both fell on that slot: it is the promotion read from the
\* new table, and differs from the promotion the old table would have given
C18_Witness ==
    /\ op = "career_progression" /\ pc = "loop"
    /\ pay_commission_index = 1 /\ promotion_yr_array_index = 1
    /\ Len(progression) >= 2
    /\ LET record == progression[Len(progression)]
           before == progression[Len(progression) - 1]
           new == promote_employee(before.Level, before.YearRowInLevel,
                                   current_pay_matrix, arg.is_ias)
           old == promote_employee(before.Level, before.YearRowInLevel,
                                   PayMatrixCareer, arg.is_ias)
       IN  /\ record.Year = HalfYear(2026)
           /\ new.ok /\ old.ok
           /\ record.BasicPay = new.pay /\ record.YearRowInLevel = new.year
           /\ new.pay # old.pay
           /\ current_pay_matrix # PayMatrixCareer

\* C19: commission events are consumed in list order: at the year-end slot of
\* every commission year of the schedule the table switch fires, once, with
\* that event's own fitment factor, and at every other slot the table in
\* force stays as it is; this for every ascending schedule, also when some of
\* its years fall before joining or on slots the run never visits
C19_EveryCommissionOfTheWindowFires ==
    [][SlotCompleted =>
            IF ScheduledCommission # 0
            THEN /\ current_pay_matrix' =
                        DeriveTable(current_pay_matrix,
                                    ResolvedFitmentFactors(arg)[ScheduledCommission])
                 /\ present_pay_comm_no' = present_pay_comm_no + 1
            ELSE /\ current_pay_matrix' = current_pay_matrix
                 /\ present_pay_comm_no' = present_pay_comm_no
      ]_vars

\* the pay of a level at a step: the cell, or the ceiling pay of the level
\* from its last populated step on
CeilingPay(df, level) == Column(df, level)[MaxSteps(Column(df, level))]

\* C20: the annual increment fires at every mid-year slot except the joining
\* slot, and at no other slot; when it fires the level is unchanged, the step
\* grows by exactly 1, and the basic pay becomes the table value at the new
\* step, or stays at the level's ceiling pay when the step was already at or
\* beyond the last populated step
C20_IncrementAtMidYearSlots ==
    [][SlotCompleted =>
            LET record == progression'[Len(progression')]
                step == year_row_in_current_pay_level
                last_step == MaxSteps(Column(current_pay_matrix, pay_level))
            IN  IF SlotYear % 2 = 1 /\ current_service_duration >= 1
                THEN /\ pay_level' = pay_level
                     /\ year_row_in_current_pay_level' = step + 1
                     /\ current_pay_matrix' = current_pay_matrix
                     /\ IF step >= last_step
                        THEN /\ basic_pay' = basic_pay
                             /\ basic_pay' = CeilingPay(current_pay_matrix, pay_level)
                        ELSE basic_pay' =
                                Column(current_pay_matrix, pay_level)[step + 1]
                     /\ record.Level = pay_level'
                     /\ record.YearRowInLevel = step + 1
                     /\ record.BasicPay = basic_pay'
                ELSE \* no increment: the step moves only with a promotion
                     promotion_yr_array_index' = promotion_yr_array_index =>
                        /\ pay_level' = pay_level
                        /\ year_row_in_current_pay_level' = step
      ]_vars

\* a run whose last record is an increment at the ceiling of its level, after
\* increments below the ceiling
C20_Witness ==
    /\ op = "career_progression" /\ pc = "loop"
    /\ Len(progression) >= 4
    /\ LET record == progression[Len(progression)]
           before == progression[Len(progression) - 1]
       IN  /\ record.Year % 2 = 1
           /\ record.Level = before.Level
           /\ record.YearRowInLevel = before.YearRowInLevel + 1
           /\ record.BasicPay = before.BasicPay
           /\ before.YearRowInLevel >= MaxSteps(Column(current_pay_matrix, record.Level))
           /\ progression[2].BasicPay > progression[1].BasicPay
           /\ progression[2].YearRowInLevel = 2

\* C21: no slot applies both an annual increment and a promotion: a promotion
\* fires only in a year-end slot, acts on the level and step the previous
\* slot left, and the slot's record carries exactly the step and basic pay
\* the promotion produced; a slot that applies the increment fires no
\* promotion
C21_NoIncrementInPromotionSlot ==
    [][SlotCompleted =>
            LET record == progression'[Len(progression')]
                promoted == promote_employee(pay_level, year_row_in_current_pay_level,
                                             current_pay_matrix', arg.is_ias)
            IN  /\ promotion_yr_array_index' = promotion_yr_array_index + 1 =>
                     /\ SlotYear % 2 = 0
                     /\ promoted.ok
                     /\ record.Level = promoted.level
                     /\ record.YearRowInLevel = promoted.year
                     /\ record.BasicPay = promoted.pay
                /\ SlotYear % 2 = 1 =>
                     promotion_yr_array_index' = promotion_yr_array_index
      ]_vars

\* the record of a promotion slot without commission: the promotion of the
\* step the mid-year increment before it had reached, which is not what a
\* further increment followed by the promotion would have given
C21_Witness ==
    /\ op = "career_progression" /\ pc = "loop"
    /\ promotion_yr_array_index = 1 /\ pay_commission_index = 0
    /\ Len(progression) >= 3
    /\ LET record == progression[Len(progression)]
           before == progression[Len(progression) - 1]
           earlier == progression[Len(progression) - 2]
           promoted == promote_employee(before.Level, before.YearRowInLevel,
                                        current_pay_matrix, arg.is_ias)
           both == promote_employee(before.Level, before.YearRowInLevel + 1,
                                    current_pay_matrix, arg.is_ias)
       IN  /\ record.Year % 2 = 0
           /\ before.YearRowInLevel = earlier.YearRowInLevel + 1
           /\ promoted.ok /\ both.ok
           /\ record.Level = promoted.level /\ record.Level # before.Level
           /\ record.YearRowInLevel = promoted.year
           /\ record.BasicPay = promoted.pay
           /\ promoted.pay # both.pay

\* the commission year (as a half-year key) in force at key k: the latest
\* year of the schedule at or before k, 0 when there is none
CommissionInForce(pay_commission_implement_years, k) ==
    LET past == {HalfYear(pay_commission_implement_years[i]) :
                    i \in 1..Len(pay_commission_implement_years)} \cap (0..k)
    IN  IF past = {} THEN 0 ELSE CHOOSE c \in past : \A d \in past : d <= c

\* C22: in the projected part of the DA matrix accrual restarts from zero at
\* each commission year c: the value at c + 0.5 is half the tapered annual
\* inflation rate of that half-year, and each later value before the next
\* commission year is the sum of the half rates of the half-years since c
\* (the half-year before the next commission year, which is reset, left out)
C22_AccrualRestartsAtCommissionYears ==
    (op = "get_DA_matrix" /\ called) =>
        LET schedule == arg.pay_commission_implement_years
            taper == arg.taper_period_yrs
            accrued(k) == AccumulatedIncrease(arg.inflation[1], arg.inflation[2],
                                              taper, k - ProjectionStart)
            resets == {HalfYear(schedule[i]) : i \in 1..Len(schedule)}
        IN  \A k \in DOMAIN res.matrix :
                LET c == CommissionInForce(schedule, k)
                IN  (/\ c > ProjectionStart
                     /\ k > c
                     /\ (k + 1) \notin resets) =>
                        res.matrix[k] =
                            RoundHalfEven(10 * (accrued(k) - accrued(c)), 4 * taper)

\* C23: for every joining date, retirement date and taper period, the DA
\* matrix get_DA_matrix builds has an entry under the Year key of every record
\* of the career trajectory, so that get_salary_matrix finds each record's
\* year in it
C23_DAMatrixCoversTrajectory ==
    (op = "career_progression" /\ pc \in {"loop", "done"}) =>
        \A taper_period_yrs \in 1..MaxTaper :
            \A i \in 1..Len(progression) :
                progression[i].Year \in
                    DOMAIN get_DA_matrix(7, 4, taper_period_yrs,
                                         arg.pay_commission_implement_years, <<>>)

\* C24: for an IAS promotion out of level 10, 11 or 12 the new step is the
\* first step of the target level paying at least the stepped pay, plus 2,
\* clamped to the target level's last populated step, and the resulting basic
\* pay is a populated cell of the target level, also when the target level
\* has fewer steps than the table has rows and when no step of it qualifies
C24_IasExtraStepsStayInPopulatedCells ==
    (/\ op = "promote_employee" /\ called
     /\ arg.is_ias /\ arg.level \in IasExtraStepLevels
     /\ HasLevel(arg.df, arg.level)
     /\ 1 <= arg.year /\ arg.year < NRows(arg.df)) =>
        LET target == arg.df[NextLevelIndex(arg.level, arg.df, TRUE)]
            last_step == MaxSteps(target.cells)
            found == MatchIndex(target.cells, SteppedPay(arg.level, arg.year, arg.df))
        IN  /\ res.ok
            /\ res.level = target.name
            /\ res.year \in 1..last_step
            /\ res.pay = target.cells[res.year]
            /\ found # 0 => res.year = Min(found + 2, last_step)

\* C25: an IAS career on the standard level list that starts at a level
\* other than 13A and 16 has no record at level 13A or 16, whatever the
\* promotion schedule: the record after the last one at level 13 is at level
\* 13 or 14, the record after the last one at level 15 at level 15 or 17
C25_IasCareerSkipsLevels13AAnd16 ==
    (/\ op = "career_progression"
     /\ arg.is_ias
     /\ arg.starting_level \notin levels_to_skip) =>
        /\ \A i \in 1..Len(progression) : progression[i].Level \notin levels_to_skip
        /\ \A i \in 1..(Len(progression) - 1) :
                /\ progression[i].Level = "13" =>
                        progression[i + 1].Level \in {"13", "14"}
                /\ progression[i].Level = "15" =>
                        progression[i + 1].Level \in {"15", "17"}

\* an IAS trajectory that was promoted out of level 13 into level 14 and from
\* there into level 15
C25_Witness ==
    /\ op = "career_progression" /\ pc = "done" /\ arg.is_ias
    /\ arg.starting_level = "13"
    /\ \E i \in 1..(Len(progression) - 1) :
            progression[i].Level = "13" /\ progression[i + 1].Level = "14"
    /\ \E i \in 1..(Len(progression) - 1) :
            progression[i].Level = "14" /\ progression[i + 1].Level = "15"

\* the allocation-weighted sum of the tapered annual returns of a year, in
\* hundred-thousandths of a percent
TaperedWeightedReturn(alloc, year, interest_rate_tapering_dict, start_year) ==
    alloc.E * get_tapered_rate("E", year, interest_rate_tapering_dict, start_year)
    + alloc.C * get_tapered_rate("C", year, interest_rate_tapering_dict, start_year)
    + alloc.G * get_tapered_rate("G", year, interest_rate_tapering_dict, start_year)

\* C26: in each month of the corpus simulation the corpus is first grown and
\* then credited, corpus' = corpus * (1 + r) + contribution, r being the
\* monthly rate of the allocation-weighted sum of the asset classes' tapered
\* annual returns for the month's calendar year (for a simulation whose
\* first month is January of the year the taper starts in; the tapered rates
\* of whole years under the dicts tried are whole percents, so the weighted
\* sum is taken in thousandths of a percent)
C26_MonthlyGrowthUsesTaperedReturns ==
    [][(/\ op = "get_corpus_growth" /\ pc = "loop" /\ pc' = "loop"
        /\ month_index' = month_index + 1) =>
            LET months_elapsed == month_index
                start_year == 2024
                year == start_year + (months_elapsed \div 12)
                alloc == get_investment_allocation(
                            arg.investment_option,
                            arg.starting_age + (months_elapsed \div 12),
                            DefaultStartAge, DefaultEndAge)
                contribution == calculate_monthly_contributions(
                                    arg.monthly_salary_detailed[month_index'],
                                    arg.employee_contrib_percent,
                                    arg.govt_contrib_percent).total_contribution
                weighted == TaperedWeightedReturn(alloc, year,
                                arg.interest_rate_tapering_dict, start_year)
            IN  /\ weighted % 100 = 0
                /\ current_corpus' =
                        RoundHalfEvenFrom(current_corpus + contribution,
                                          current_corpus * (weighted \div 100),
                                          1000 * 12 * 100)
      ]_vars

(***************************************************************************)
(* Specification of the monthly contributions: one call per behaviour      *)
(***************************************************************************)

\* monthly salaries in paise, contribution percentages in whole percents
ContribArgs ==
    [monthly_salary : {0, 1, 3333, 10037, 20050, 8415000},
     employee_contrib_percent : {0, 10, 14},
     govt_contrib_percent : {0, 10, 14, 18}]

InitContrib ==
    /\ op = "calculate_monthly_contributions"
    /\ arg \in ContribArgs
    /\ called = FALSE
    /\ res = NoPay
    /\ resTable = NoFile
    /\ files = [n \in FileNames |-> NoFile]
    /\ cwdFiles = {}
    /\ pc = "idle" /\ CareerIdle /\ CorpusIdle /\ suspended = NoRun

CallCalculateMonthlyContributions ==
    /\ op = "calculate_monthly_contributions" /\ ~called
    /\ called' = TRUE
    /\ res' = calculate_monthly_contributions(arg.monthly_salary,
                                              arg.employee_contrib_percent,
                                              arg.govt_contrib_percent)
    /\ UNCHANGED <<op, arg, resTable, files, cwdFiles, loopVars>>

NextContrib == CallCalculateMonthlyContributions

SpecContrib == InitContrib /\ [][NextContrib]_vars

\* C27: for every monthly salary and pair of contribution percentages,
\* calculate_monthly_contributions returns the employee's share
\* salary * employee% / 100, the government's share salary * govt% / 100 and
\* their sum as the total, each to 2 decimals
C27_ContributionsAreSharesOfSalary ==
    (op = "calculate_monthly_contributions" /\ called) =>
        LET employee == arg.monthly_salary * arg.employee_contrib_percent
            govt == arg.monthly_salary * arg.govt_contrib_percent
        IN  /\ res.employee_contribution = RoundHalfEven(employee, 100)
            /\ res.govt_contribution = RoundHalfEven(govt, 100)
            /\ res.total_contribution = RoundHalfEven(employee + govt, 100)

\* a promotion is due in the slot under way
PromotionDue ==
    /\ promotion_yr_array_index < Len(arg.promotion_duration_array)
    /\ SlotYear = HalfYear(PromotionDueYear(arg, promotion_yr_array_index + 1))

\* C28: a commission schedule exhausted before retirement, an empty one
\* included, is accepted: once every listed commission has fired, each
\* remaining year-end slot applies no switch, keeps the table in force and
\* emits its record (slots in which a promotion is due are left aside)
C28_ExhaustedScheduleKeepsLastTable ==
    [][(/\ SlotOpen
        /\ SlotYear % 2 = 0
        /\ pay_commission_index = Len(arg.pay_commission_implement_years)
        /\ basic_pay # Blank
        /\ ~PromotionDue) =>
            /\ pc' = "loop"
            /\ current_pay_matrix' = current_pay_matrix
            /\ present_pay_comm_no' = present_pay_comm_no
            /\ progression' = Append(progression,
                    ServiceDetails(pay_level, year_row_in_current_pay_level, basic_pay,
                                   current_service_duration, SlotYear))
      ]_vars

\* the commission at the head of the schedule is due in the slot under way
CommissionDue ==
    /\ pay_commission_index < Len(arg.pay_commission_implement_years)
    /\ SlotYear = HalfYear(arg.pay_commission_implement_years[pay_commission_index + 1])

\* C29: stagnation is unbounded: once the step has reached or passed the
\* level's last populated step, also past the number of rows of the table, a
\* commission pay fixation or a promotion due in a later year-end slot still
\* succeeds and the fixation pays the level's ceiling in the new table (read
\* for non-IAS runs that find no table left behind by an earlier run)
C29_StagnationNeverAbortsTheRun ==
    [][(/\ SlotOpen
        /\ SlotYear % 2 = 0
        /\ basic_pay # Blank
        /\ ~arg.is_ias
        /\ arg.environment.working_directory = {}
        /\ year_row_in_current_pay_level >=
                MaxSteps(Column(current_pay_matrix, pay_level))
        /\ CommissionDue \/ PromotionDue) =>
            /\ pc' = "loop"
            /\ (CommissionDue /\ ~PromotionDue) =>
                    /\ pay_level' = pay_level
                    /\ basic_pay' = CeilingPay(current_pay_matrix', pay_level)
      ]_vars

(***************************************************************************)
(* get_final_corpus on the series of a whole career: the corpus loop with  *)
(* the starting age and the monthly series the pipeline hands it           *)
(***************************************************************************)

\* longest service tried, in years between the joining and the retirement year
MaxServiceSpan == 3

\* the Year keys of the records of a career with standard retirement: one
\* per iteration of the loop of career_progression
ServiceYears(a) ==
    {ServiceJoiningYear(a) + duration :
        duration \in {d \in 0..(2 * MaxServiceSpan + 2) : InService(d, MaxServiceYears(a))}}

\* the arguments get_final_corpus passes to get_corpus_growth: the series
\* main_function builds from the salary matrix of the trajectory (one entry
\* per record) and starting_age = doj_date.year - dob_date.year
CorpusInput(a) ==
    [monthly_salary_detailed |->
        MonthlySalaryDetailed(
            [year \in ServiceYears(a) |-> a.half_year_salary]).monthly_salary_detailed,
     investment_option |-> a.investment_option,
     interest_rate_tapering_dict |-> TaperingDict(0, 0, 0),
     starting_age |-> a.doj[1] - a.dob[1],
     employee_contrib_percent |-> 10,
     govt_contrib_percent |-> 14,
     existing_corpus |-> 0,
     dob |-> a.dob,
     doj |-> a.doj]

FinalCorpusArgs ==
    {[dob |-> <<1969, birth_month>>,
      doj |-> <<1969 + 60 - span, joining_month>>,
      early_retirement |-> FALSE,
      dor |-> <<>>,
      half_year_salary |-> 1200,
      investment_option |-> option] :
        birth_month \in {1, 6, 7, 12},
        span \in 0..MaxServiceSpan,
        joining_month \in {1, 6, 7, 12},
        option \in {"Auto_LC75", "Active"}}

InitFinalCorpus ==
    /\ op = "get_corpus_growth"
    /\ \E a \in FinalCorpusArgs :
            /\ arg = CorpusInput(a)
            \* get_final_corpus rejects an empty series before any age is computed
            /\ arg.monthly_salary_detailed # <<>>
    /\ called = FALSE
    /\ res = NoCorpus
    /\ resTable = NoFile
    /\ files = [n \in FileNames |-> NoFile]
    /\ cwdFiles = {}
    /\ pc = "idle" /\ CareerIdle /\ CorpusIdle /\ suspended = NoRun

SpecFinalCorpus == InitFinalCorpus /\ [][NextCorpus]_vars

\* C30: for a career with standard retirement whose joining year minus birth
\* year is at least 20, the age get_corpus_growth computes for every
\* simulated month (six months per slot of the trajectory) lies between the
\* starting age and 60, and the allocation lookup never raises during the
\* simulation
C30_SimulatedAgesWithinAllocationRange ==
    (op = "get_corpus_growth" /\ arg.doj[1] - arg.dob[1] >= 20) =>
        /\ arg.starting_age = arg.doj[1] - arg.dob[1]
        /\ pc # "error"
        /\ (pc = "loop" /\ month_index < Len(arg.monthly_salary_detailed)) =>
                LET current_age == arg.starting_age + (month_index \div 12)
                IN  /\ arg.starting_age <= current_age
                    /\ current_age <= 60
                    /\ get_investment_allocation(arg.investment_option, current_age,
                                                 DefaultStartAge, DefaultEndAge).ok

\* a simulation that began before the age of 60 and whose last month, the
\* last of the retirement slot, was computed at the age of 60
C30_Witness ==
    /\ op = "get_corpus_growth" /\ pc = "done" /\ res.ok
    /\ "dob" \in DOMAIN arg
    /\ arg.starting_age < 60
    /\ month_index = Len(arg.monthly_salary_detailed)
    /\ month_index = 6 * (2 * (60 - arg.starting_age) + 1)
    /\ arg.starting_age + ((month_index - 1) \div 12) = 60

====
